---- MODULE Spec2Model ----
(***************************************************************************)
(* nix_autobuild: the polling / discovery / build-dispatch engine of       *)
(* src/src/backend/mod.rs.  Strings are sequences of one-character         *)
(* strings, so that find, starts_with, trim and format! are computed.      *)
(***************************************************************************)
EXTENDS Integers, Sequences, FiniteSets, TLC

\* ------------------------------------------------------------------ bounds
\* commits of the git history, commits the build engine is followed for,
\* n_build_threads, host cpus, build_depth
NHashes == 3
MaxCommits == 2
MaxThreads == 1
NumCpus == 2
MaxDepth == 2

\* the configured repositories
Repos == {1, 2}
Hashes == 1..NHashes
CommitKeys == Repos \X Hashes

\* ----------------------------------------------------------------- strings
ARCHITECTURES ==
  << <<"a", "a", "r", "c", "h", "6", "4", "-", "d", "a", "r", "w", "i", "n">>,
     <<"a", "a", "r", "c", "h", "6", "4", "-", "l", "i", "n", "u", "x">>,
     <<"a", "r", "m", "v", "5", "t", "e", "l", "-", "l", "i", "n", "u", "x">>,
     <<"a", "r", "m", "v", "6", "l", "-", "l", "i", "n", "u", "x">>,
     <<"a", "r", "m", "v", "7", "a", "-", "l", "i", "n", "u", "x">>,
     <<"a", "r", "m", "v", "7", "l", "-", "l", "i", "n", "u", "x">>,
     <<"i", "6", "8", "6", "-", "l", "i", "n", "u", "x">>,
     <<"l", "o", "o", "n", "g", "a", "r", "c", "h", "6", "4", "-", "l", "i", "n", "u", "x">>,
     <<"m", "6", "8", "k", "-", "l", "i", "n", "u", "x">>,
     <<"m", "i", "c", "r", "o", "b", "l", "a", "z", "e", "e", "l", "-", "l", "i", "n", "u", "x">>,
     <<"m", "i", "c", "r", "o", "b", "l", "a", "z", "e", "-", "l", "i", "n", "u", "x">>,
     <<"m", "i", "p", "s", "6", "4", "e", "l", "-", "l", "i", "n", "u", "x">>,
     <<"m", "i", "p", "s", "6", "4", "-", "l", "i", "n", "u", "x">>,
     <<"m", "i", "p", "s", "e", "l", "-", "l", "i", "n", "u", "x">>,
     <<"m", "i", "p", "s", "-", "l", "i", "n", "u", "x">>,
     <<"p", "o", "w", "e", "r", "p", "c", "6", "4", "l", "e", "-", "l", "i", "n", "u", "x">>,
     <<"p", "o", "w", "e", "r", "p", "c", "6", "4", "-", "l", "i", "n", "u", "x">>,
     <<"p", "o", "w", "e", "r", "p", "c", "-", "l", "i", "n", "u", "x">>,
     <<"r", "i", "s", "c", "v", "3", "2", "-", "l", "i", "n", "u", "x">>,
     <<"r", "i", "s", "c", "v", "6", "4", "-", "l", "i", "n", "u", "x">>,
     <<"s", "3", "9", "0", "-", "l", "i", "n", "u", "x">>,
     <<"s", "3", "9", "0", "x", "-", "l", "i", "n", "u", "x">>,
     <<"x", "8", "6", "_", "6", "4", "-", "d", "a", "r", "w", "i", "n">>,
     <<"x", "8", "6", "_", "6", "4", "-", "l", "i", "n", "u", "x">> >>

X86_64_LINUX == ARCHITECTURES[Len(ARCHITECTURES)]
AARCH64_LINUX == ARCHITECTURES[2]
K_description == <<"d", "e", "s", "c", "r", "i", "p", "t", "i", "o", "n">>
K_name == <<"n", "a", "m", "e">>
K_type == <<"t", "y", "p", "e">>
K_nixosConfigurations ==
  <<"n", "i", "x", "o", "s", "C", "o", "n", "f", "i", "g", "u", "r", "a", "t", "i", "o", "n", "s">>
V_nixos_configuration ==
  <<"n", "i", "x", "o", "s", "-", "c", "o", "n", "f", "i", "g", "u", "r", "a", "t", "i", "o", "n">>
TOPLEVEL_SUFFIX ==
  <<".", "c", "o", "n", "f", "i", "g", ".", "s", "y", "s", "t", "e", "m", ".",
    "b", "u", "i", "l", "d", ".", "t", "o", "p", "l", "e", "v", "e", "l">>
UNKNOWN == <<"u", "n", "k", "n", "o", "w", "n">>
GIT_HTTPS == <<"g", "i", "t", "+", "h", "t", "t", "p", "s", ":", "/", "/">>
REV == <<"?", "r", "e", "v", "=">>
ORIGIN == <<"o", "r", "i", "g", "i", "n", "/">>
MAIN == <<"m", "a", "i", "n">>
DEV == <<"d", "e", "v">>
K_packages == <<"p", "a", "c", "k", "a", "g", "e", "s">>
K_hello == <<"h", "e", "l", "l", "o">>
K_host == <<"h", "o", "s", "t">>
K_wasm32_linux == <<"w", "a", "s", "m", "3", "2", "-", "l", "i", "n", "u", "x">>
V_derivation == <<"d", "e", "r", "i", "v", "a", "t", "i", "o", "n">>
Digits == <<"0", "1", "2", "3", "4", "5", "6", "7", "8", "9">>

\* str::find('.'): the index of the first '.', 0 when there is none
FindDot(s) ==
  IF \E i \in 1..Len(s) : s[i] = "."
  THEN CHOOSE i \in 1..Len(s) : s[i] = "." /\ \A j \in 1..(i - 1) : s[j] # "."
  ELSE 0

\* str::starts_with
StartsWith(s, p) == Len(p) <= Len(s) /\ SubSeq(s, 1, Len(p)) = p

\* a find that takes a tag only when it is all of s
FindArch_whole(s) ==
  IF \E i \in 1..Len(ARCHITECTURES) : ARCHITECTURES[i] = s THEN s ELSE <<>>

\* Iterator::find over ARCHITECTURES: the first tag, in array order, that
\* prefixes s; <<>> when none does
FindArch(s) ==
  LET hits == {i \in 1..Len(ARCHITECTURES) : StartsWith(s, ARCHITECTURES[i])}
  IN IF hits = {} THEN <<>>
     ELSE ARCHITECTURES[CHOOSE i \in hits : \A j \in hits : i <= j]

\* str::replace(pat, ""): every non-overlapping occurrence of pat removed,
\* left to right
RECURSIVE Remove(_, _)
Remove(s, pat) ==
  IF s = <<>> THEN <<>>
  ELSE IF StartsWith(s, pat) THEN Remove(SubSeq(s, Len(pat) + 1, Len(s)), pat)
  ELSE <<Head(s)>> \o Remove(Tail(s), pat)

\* the url the configuration gives repository r when nothing else is said,
\* and the text of commit hash h
DefaultUrl(r) == <<"h", "/", "r", Digits[r + 1]>>
HashStr(h) == <<"c", Digits[h + 1]>>

\* str::replace(from, to) for one-character patterns
Replace(s, from, to) == [i \in DOMAIN s |-> IF s[i] = from THEN to ELSE s[i]]
REPOS_DIR == <<"r", "e", "p", "o", "s", "/">>
\* main line 651: repo_dir.join(&repo.url.replace("/", "_").replace(":", "_"))
checkout_path_of(u) == REPOS_DIR \o Replace(Replace(u, "/", "_"), ":", "_")

\* ------------------------------------------------------------ JSON values
\* serde_json::Value: an object is its entries in the map's iteration order
JStr(s) == [t |-> "string", s |-> s]
JObj(m) == [t |-> "object", m |-> m]
JArr == [t |-> "array"]
KV(k, v) == [k |-> k, v |-> v]

\* Map::get(key): the entries under key (at most one)
MapGet(m, key) == {i \in 1..Len(m) : m[i].k = key}
HasStr(m, key) == \E i \in MapGet(m, key) : m[i].v.t = "string"
GetStr(m, key) == m[CHOOSE i \in MapGet(m, key) : TRUE].v.s

\* ------------------------------------------------------- target enumerator
\* a from_map that takes only maps whose type is "derivation"
Package_from_map_typed(m, path, flake) ==
  IF HasStr(m, K_description) /\ HasStr(m, K_name) /\ HasStr(m, K_type)
     /\ GetStr(m, K_type) = V_derivation
  THEN << [kind |-> "Derivation",
           description |-> GetStr(m, K_description),
           name |-> GetStr(m, K_name),
           pkg_type |-> GetStr(m, K_type),
           arch |-> IF FindDot(path) = 0 THEN UNKNOWN
                    ELSE LET a == FindArch(SubSeq(path, FindDot(path) + 1, Len(path)))
                         IN IF a = <<>> THEN UNKNOWN ELSE a,
           flake_url |-> flake \o <<"#">> \o path,
           path |-> path] >>
  ELSE <<>>

\* Package::from_map: <<>> for None, else the one-element sequence
Package_from_map(m, path, flake) ==
  IF HasStr(m, K_description) /\ HasStr(m, K_name) /\ HasStr(m, K_type)
  THEN << [kind |-> "Derivation",
           description |-> GetStr(m, K_description),
           name |-> GetStr(m, K_name),
           pkg_type |-> GetStr(m, K_type),
           arch |-> IF FindDot(path) = 0 THEN UNKNOWN
                    ELSE LET a == FindArch(SubSeq(path, FindDot(path) + 1, Len(path)))
                         IN IF a = <<>> THEN UNKNOWN ELSE a,
           flake_url |-> flake \o <<"#">> \o path,
           path |-> path] >>
  ELSE <<>>

\* a from_map that appends the discovery path to the flake URL
NixosConfigPackage_from_map_unrewritten(m, path, flake) ==
  IF ~StartsWith(path, K_nixosConfigurations) THEN <<>>
  ELSE IF ~HasStr(m, K_type) THEN <<>>
  ELSE IF GetStr(m, K_type) # V_nixos_configuration THEN <<>>
  ELSE << [kind |-> "NixosConfig",
           pkg_type |-> GetStr(m, K_type),
           flake_url |-> flake \o <<"#">> \o path,
           path |-> path \o TOPLEVEL_SUFFIX] >>

\* a from_map that takes a nixos-configuration wherever it lies
NixosConfigPackage_from_map_anywhere(m, path, flake) ==
  IF ~HasStr(m, K_type) THEN <<>>
  ELSE IF GetStr(m, K_type) # V_nixos_configuration THEN <<>>
  ELSE << [kind |-> "NixosConfig",
           pkg_type |-> GetStr(m, K_type),
           flake_url |-> flake \o <<"#">> \o path \o TOPLEVEL_SUFFIX,
           path |-> path \o TOPLEVEL_SUFFIX] >>

\* NixosConfigPackage::from_map
NixosConfigPackage_from_map(m, path, flake) ==
  IF ~StartsWith(path, K_nixosConfigurations) THEN <<>>
  ELSE IF ~HasStr(m, K_type) THEN <<>>
  ELSE IF GetStr(m, K_type) # V_nixos_configuration THEN <<>>
  ELSE << [kind |-> "NixosConfig",
           pkg_type |-> GetStr(m, K_type),
           flake_url |-> flake \o <<"#">> \o path \o TOPLEVEL_SUFFIX,
           path |-> path \o TOPLEVEL_SUFFIX] >>

RECURSIVE parse_pkgs_value(_, _, _)
RECURSIVE parse_children(_, _, _, _)
\* parse_children that walks the entries from the last to the first
parse_children_backwards(m, i, path, flake) ==
  IF i > Len(m) THEN <<>>
  ELSE parse_children(m, i + 1, path, flake)
       \o (IF m[i].v.t = "object"
           THEN parse_pkgs_value(m[i].v.m,
                                 (IF path = <<>> THEN path ELSE path \o <<".">>) \o m[i].k,
                                 flake)
           ELSE <<>>)

\* CommitInfo::_parse_pkgs_value: the targets pushed for map m at path
parse_pkgs_value(m, path, flake) ==
  IF Package_from_map(m, path, flake) # <<>> THEN Package_from_map(m, path, flake)
  ELSE IF NixosConfigPackage_from_map(m, path, flake) # <<>>
       THEN NixosConfigPackage_from_map(m, path, flake)
  ELSE parse_children(m, 1, path, flake)

\* the for loop over map.keys(), from entry i on
parse_children(m, i, path, flake) ==
  IF i > Len(m) THEN <<>>
  ELSE (IF m[i].v.t = "object"
        THEN parse_pkgs_value(m[i].v.m,
                              (IF path = <<>> THEN path ELSE path \o <<".">>) \o m[i].k,
                              flake)
        ELSE <<>>)
       \o parse_children(m, i + 1, path, flake)

\* ------------------------------------------------- external tool outcomes
Drv ==
  JObj(<<KV(K_description, JStr(<<"d">>)), KV(K_name, JStr(K_hello)),
         KV(K_type, JStr(V_derivation))>>)
NixosCfg == JObj(<<KV(K_type, JStr(V_nixos_configuration))>>)

\* {"nixosConfigurations":{"host":{...}},"packages":{"x86_64-linux":{"hello":{...}}}}
ManifestA ==
  JObj(<<KV(K_nixosConfigurations, JObj(<<KV(K_host, NixosCfg)>>)),
         KV(K_packages, JObj(<<KV(X86_64_LINUX, JObj(<<KV(K_hello, Drv)>>))>>))>>)
\* {"packages":{"aarch64-linux":{"hello":{...}},"wasm32-linux":{"hello":{...}}}}
ManifestB ==
  JObj(<<KV(K_packages, JObj(<<KV(AARCH64_LINUX, JObj(<<KV(K_hello, Drv)>>)),
                               KV(K_wasm32_linux, JObj(<<KV(K_hello, Drv)>>))>>))>>)
ManifestE == JObj(<<>>)

\* what `nix flake show --json --all-systems` can come back with: the
\* process cannot be spawned, a non-zero exit, stdout that is not UTF-8,
\* not JSON, JSON that is no object, or a manifest
FlakeShowOutputs ==
  { [io |-> "error"],
    [io |-> "ok", code |-> 1, stdout |-> "any"],
    [io |-> "ok", code |-> 0, stdout |-> "not_utf8"],
    [io |-> "ok", code |-> 0, stdout |-> "not_json"],
    [io |-> "ok", code |-> 0, stdout |-> "json", value |-> JArr],
    [io |-> "ok", code |-> 0, stdout |-> "json", value |-> ManifestA],
    [io |-> "ok", code |-> 0, stdout |-> "json", value |-> ManifestB],
    [io |-> "ok", code |-> 0, stdout |-> "json", value |-> ManifestE] }

WS == {" ", "\n", "\t"}
RECURSIVE TrimStart(_)
TrimStart(s) == IF s # <<>> /\ Head(s) \in WS THEN TrimStart(Tail(s)) ELSE s
RECURSIVE TrimEnd(_)
TrimEnd(s) ==
  IF s # <<>> /\ s[Len(s)] \in WS THEN TrimEnd(SubSeq(s, 1, Len(s) - 1)) ELSE s
\* str::trim
Trim(s) == TrimEnd(TrimStart(s))

\* what `nix build --no-link --print-out-paths` can come back with
BuildOutputs ==
  { [io |-> "error"],
    [io |-> "ok", code |-> 0, stdout |-> <<"/", "o", "\n">>, stderr |-> <<>>],
    [io |-> "ok", code |-> 1, stdout |-> <<>>, stderr |-> <<" ", "e", "\n">>] }
IO_ERROR == <<"i", "o">>

\* ------------------------------------------------------------------ state
VARIABLES
  settings,        \* AutoBuildOptions: n_build_threads, supported_architectures
  sem_count,       \* Semaphore.count
  commits,         \* RepoInfo.commits of each repository: hash -> CommitInfo
  nodes_created,   \* how many CommitInfo were ever allocated (Arc identity)
  commit_status,   \* CommitInfo.status
  packages,        \* CommitInfo.packages: the Arc clones pushed, as indices into pkgs
  cpc,             \* where each commit's discovery thread stands
  commits_lock,    \* the RwLock of RepoInfo.commits: free, read or write
  goc,             \* where a call of get_or_create_commit stands, and for which hash
  pkgs_value,      \* the discovery thread's local `pkgs_value`: the parsed output of flake show
  pkgs,            \* the discovery thread's local `pkgs`
  pkg_status,      \* Package.status / NixosConfigPackage.status of pkgs[k][i]
  bpc,             \* where each target's build thread stands
  bres,            \* the Result build_static returned to a build thread, and the tool's Output
  n_show,          \* flake show invocations launched for a commit
  n_build,         \* nix build invocations launched for a target
  repo,            \* RepoInfo.repo: branches, build_depth
  url,             \* RepoInfo.repo.url
  checkout_path,   \* RepoInfo.checkout_path, <<>> while main has not built the RepoInfo
  remote,          \* the branch tips of each repository's origin
  checkout,        \* whether checkout_path holds a repository
  local_refs,      \* the checkout's remote-tracking references: name -> hash
  status,          \* RepoInfo.status
  branch_commit_hashes, \* RepoInfo.branch_commit_hashes
  pc,              \* where each repository's worker thread stands
  todo,            \* the branches the for_each of thread_loop has yet to see
  log              \* the last errors thread_poll printed: of thread_loop, of delete_repo

\* the url of repository r (Repo.url)
RepoUrl(r) == url[r]
\* format!("git+https://{}?rev={}", repo.url, hash)
CommitFlakeUrl(r, h) == GIT_HTTPS \o RepoUrl(r) \o REV \o HashStr(h)

repoVars ==
  <<repo, url, checkout_path, remote, checkout, local_refs, status, branch_commit_hashes, pc, todo, log>>

pipeVars ==
  <<settings, commits_lock, goc, sem_count, commits, nodes_created, commit_status, packages,
    cpc, pkgs_value, pkgs, pkg_status, bpc, bres, n_show, n_build>>

\* ---------------------------------------------------------------- statuses
Idle == [tag |-> "Idle"]
Building == [tag |-> "Building"]
WaitingForBuild == [tag |-> "WaitingForBuild"]
UnsupportedArchitecture(a) == [tag |-> "UnsupportedArchitecture", v |-> a]
Success(p) == [tag |-> "Success", v |-> p]
Failed(e) == [tag |-> "Failed", v |-> e]

\* -------------------------------------------------------------- semaphore
\* main: build_pool_size
build_pool_size(s) == IF s.n_build_threads = 0 THEN NumCpus ELSE s.n_build_threads

\* an acquire that does not wait for a permit
acquire_ready_unguarded(count) == TRUE
\* an acquire that leaves the count as it is
acquire_keeping(count) == count
\* Semaphore::acquire: blocks while the count is 0, then takes one
acquire_ready(count) == count # 0
acquire(count) == count - 1
\* a release that does not give the permit back
release_lost(count) == count
\* Semaphore::release
release(count) == count + 1

\* -------------------------------------------------------- commit registry
\* CommitInfo::new
CommitInfo_new(r, h) == [hash |-> h, flake_url |-> CommitFlakeUrl(r, h)]

\* a registration that replaces the node of a hash the map already holds
get_or_create_commit_replacing(reg, r, h) ==
  LET commit == CommitInfo_new(r, h)
  IN [map |-> (h :> commit) @@ reg.map,
      next |-> reg.next + 1,
      spawned |-> IF h \in DOMAIN reg.map THEN reg.spawned ELSE Append(reg.spawned, h),
      ret |-> commit]
\* a registration that starts discovery again on a node the map already holds
get_or_create_commit_rebuilding(reg, r, h) ==
  IF h \in DOMAIN reg.map
  THEN [reg EXCEPT !.ret = reg.map[h], !.spawned = Append(reg.spawned, h)]
  ELSE LET commit == CommitInfo_new(r, h)
       IN [map |-> (h :> commit) @@ reg.map,
           next |-> reg.next + 1,
           spawned |-> Append(reg.spawned, h),
           ret |-> commit]
\* RepoInfo::get_or_create_commit on the registry reg of repository r:
\* reg.map is the commit map, reg.next the allocation count, reg.spawned the
\* hashes whose CommitInfo::build was called, reg.ret the node returned
get_or_create_commit(reg, r, h) ==
  IF h \in DOMAIN reg.map
  THEN [reg EXCEPT !.ret = reg.map[h]]
  ELSE LET commit == CommitInfo_new(r, h)
       IN [map |-> (h :> commit) @@ reg.map,
           next |-> reg.next + 1,
           spawned |-> Append(reg.spawned, h),
           ret |-> commit]

Registry(r) == [map |-> commits[r], next |-> nodes_created, spawned |-> <<>>, ret |-> <<>>]
Count(seq, x) == Cardinality({i \in 1..Len(seq) : seq[i] = x})

\* the registry reg written back for repository r: the map, and one
\* discovery thread spawned (CommitInfo::build) per entry of reg.spawned
Registered(reg, r) ==
  /\ commits' = [commits EXCEPT ![r] = reg.map]
  /\ nodes_created' = reg.next
  /\ cpc' = [k \in CommitKeys |->
               IF k[1] = r /\ Count(reg.spawned, k[2]) > 0 THEN "spawned" ELSE cpc[k]]

\* a repository worker reaches commit h of repository r
Visit(r, h) ==
  /\ Registered(get_or_create_commit(Registry(r), r, h), r)
  /\ UNCHANGED <<settings, commits_lock, goc, pkgs_value, sem_count, commit_status, packages, pkgs, pkg_status,
                 bpc, bres, n_show, n_build>>
  /\ UNCHANGED repoVars

\* get_or_create_commit step by step, for the lock of the commit map.
\* line 233: the write lock is taken
GoC_Lock(r, h) ==
  /\ goc[r].pc = "idle"
  /\ commits_lock[r] = "free"
  /\ commits_lock' = [commits_lock EXCEPT ![r] = "write"]
  /\ goc' = [goc EXCEPT ![r] = [pc |-> "locked", h |-> h]]
  /\ UNCHANGED <<settings, sem_count, commits, nodes_created, commit_status, packages, cpc,
                 pkgs_value, pkgs, pkg_status, bpc, bres, n_show, n_build>>
  /\ UNCHANGED repoVars

\* lines 234-236: the hash is in the map, the node is returned and the
\* guard dropped with the return
GoC_Found(r) ==
  /\ goc[r].pc = "locked"
  /\ goc[r].h \in DOMAIN commits[r]
  /\ commits_lock' = [commits_lock EXCEPT ![r] = "free"]
  /\ goc' = [goc EXCEPT ![r] = [pc |-> "idle", h |-> 0]]
  /\ UNCHANGED <<settings, sem_count, commits, nodes_created, commit_status, packages, cpc,
                 pkgs_value, pkgs, pkg_status, bpc, bres, n_show, n_build>>
  /\ UNCHANGED repoVars

\* an insert that spawns the discovery thread under the lock
GoC_Insert_spawning(r) ==
  /\ goc[r].pc = "locked"
  /\ goc[r].h \notin DOMAIN commits[r]
  /\ commits' = [commits EXCEPT ![r] = (goc[r].h :> CommitInfo_new(r, goc[r].h)) @@ @]
  /\ nodes_created' = nodes_created + 1
  /\ cpc' = [cpc EXCEPT ![<<r, goc[r].h>>] = "spawned"]
  /\ goc' = [goc EXCEPT ![r].pc = "inserted"]
  /\ UNCHANGED <<settings, commits_lock, sem_count, commit_status, packages,
                 pkgs_value, pkgs, pkg_status, bpc, bres, n_show, n_build>>
  /\ UNCHANGED repoVars
\* lines 237-238: CommitInfo::new and the insert
GoC_Insert(r) ==
  /\ goc[r].pc = "locked"
  /\ goc[r].h \notin DOMAIN commits[r]
  /\ commits' = [commits EXCEPT ![r] = (goc[r].h :> CommitInfo_new(r, goc[r].h)) @@ @]
  /\ nodes_created' = nodes_created + 1
  /\ goc' = [goc EXCEPT ![r].pc = "inserted"]
  /\ UNCHANGED <<settings, commits_lock, sem_count, commit_status, packages, cpc,
                 pkgs_value, pkgs, pkg_status, bpc, bres, n_show, n_build>>
  /\ UNCHANGED repoVars

\* line 239: drop(commits)
GoC_Drop(r) ==
  /\ goc[r].pc = "inserted"
  /\ commits_lock' = [commits_lock EXCEPT ![r] = "free"]
  /\ goc' = [goc EXCEPT ![r].pc = "dropped"]
  /\ UNCHANGED <<settings, sem_count, commits, nodes_created, commit_status, packages, cpc,
                 pkgs_value, pkgs, pkg_status, bpc, bres, n_show, n_build>>
  /\ UNCHANGED repoVars

\* line 240: commit.clone().build() spawns the discovery thread
GoC_Build(r) ==
  /\ goc[r].pc = "dropped"
  /\ cpc' = [cpc EXCEPT ![<<r, goc[r].h>>] = "spawned"]
  /\ goc' = [goc EXCEPT ![r] = [pc |-> "idle", h |-> 0]]
  /\ UNCHANGED <<settings, commits_lock, sem_count, commits, nodes_created, commit_status,
                 packages, pkgs_value, pkgs, pkg_status, bpc, bres, n_show, n_build>>
  /\ UNCHANGED repoVars

\* serialize.rs: a status reader takes the read lock of the map
Read_Lock(r) ==
  /\ commits_lock[r] = "free"
  /\ commits_lock' = [commits_lock EXCEPT ![r] = "read"]
  /\ UNCHANGED <<settings, goc, sem_count, commits, nodes_created, commit_status, packages, cpc,
                 pkgs_value, pkgs, pkg_status, bpc, bres, n_show, n_build>>
  /\ UNCHANGED repoVars
\* the reader is done and drops its guard
Read_Unlock(r) ==
  /\ commits_lock[r] = "read"
  /\ commits_lock' = [commits_lock EXCEPT ![r] = "free"]
  /\ UNCHANGED <<settings, goc, sem_count, commits, nodes_created, commit_status, packages, cpc,
                 pkgs_value, pkgs, pkg_status, bpc, bres, n_show, n_build>>
  /\ UNCHANGED repoVars

\* ------------------------------------------------------- commit discovery
\* CommitInfo::build, line 447
CommitBuild_Start(k) ==
  /\ cpc[k] = "spawned"
  /\ commit_status' = [commit_status EXCEPT ![k] = "GettingPackages"]
  /\ cpc' = [cpc EXCEPT ![k] = "acquire"]
  /\ UNCHANGED <<settings, commits_lock, goc, pkgs_value, sem_count, commits, nodes_created, packages, pkgs,
                 pkg_status, bpc, bres, n_show, n_build>>
  /\ UNCHANGED repoVars

\* get_pkgs_list: execute acquires the permit, the closure publishes
\* GettingPackages and launches `nix flake show`
GetPkgs_Acquire(k) ==
  /\ cpc[k] = "acquire"
  /\ acquire_ready(sem_count)
  /\ sem_count' = acquire(sem_count)
  /\ commit_status' = [commit_status EXCEPT ![k] = "GettingPackages"]
  /\ n_show' = [n_show EXCEPT ![k] = @ + 1]
  /\ cpc' = [cpc EXCEPT ![k] = "show"]
  /\ UNCHANGED <<settings, commits_lock, goc, pkgs_value, commits, nodes_created, packages, pkgs, pkg_status,
                 bpc, bres, n_build>>
  /\ UNCHANGED repoVars

\* the closure of get_pkgs_list on the tool's outcome out, for commit k
get_pkgs_list(out, k) ==
  IF out.io = "error" THEN [ok |-> FALSE]
  ELSE IF out.code # 0 THEN [ok |-> FALSE]
  ELSE IF out.stdout # "json" THEN [ok |-> FALSE]
  ELSE IF out.value.t # "object" THEN [ok |-> FALSE]
  ELSE [ok |-> TRUE,
        pkgs |-> parse_pkgs_value(out.value.m, <<>>, CommitFlakeUrl(k[1], k[2]))]

\* a closure that needs a second permit before it can leave execute
GetPkgs_Finish_nested(k, out) ==
  /\ cpc[k] = "show"
  /\ acquire_ready(sem_count)
  /\ sem_count' = release(sem_count)
  /\ LET res == get_pkgs_list(out, k)
     IN IF res.ok
        THEN /\ commit_status' = [commit_status EXCEPT ![k] = "Idle"]
             /\ pkgs_value' = [pkgs_value EXCEPT ![k] = out.value]
             /\ pkgs' = [pkgs EXCEPT ![k] = res.pkgs]
             /\ pkg_status' = [pkg_status EXCEPT ![k] = [i \in 1..Len(res.pkgs) |-> Idle]]
             /\ bpc' = [bpc EXCEPT ![k] = [i \in 1..Len(res.pkgs) |-> "none"]]
             /\ bres' = [bres EXCEPT ![k] = [i \in 1..Len(res.pkgs) |-> <<>>]]
             /\ n_build' = [n_build EXCEPT ![k] = [i \in 1..Len(res.pkgs) |-> 0]]
             /\ cpc' = [cpc EXCEPT ![k] = "install"]
        ELSE /\ cpc' = [cpc EXCEPT ![k] = "failed"]
             /\ UNCHANGED <<commit_status, pkgs_value, pkgs, pkg_status, bpc, bres, n_build>>
  /\ UNCHANGED <<settings, commits_lock, goc, commits, nodes_created, packages, n_show>>
  /\ UNCHANGED repoVars

\* an execute that keeps the permit when the closure returns Err
GetPkgs_Finish_leaking(k, out) ==
  /\ cpc[k] = "show"
  /\ LET res == get_pkgs_list(out, k)
     IN IF res.ok
        THEN /\ sem_count' = release(sem_count)
             /\ commit_status' = [commit_status EXCEPT ![k] = "Idle"]
             /\ pkgs_value' = [pkgs_value EXCEPT ![k] = out.value]
             /\ pkgs' = [pkgs EXCEPT ![k] = res.pkgs]
             /\ pkg_status' = [pkg_status EXCEPT ![k] = [i \in 1..Len(res.pkgs) |-> Idle]]
             /\ bpc' = [bpc EXCEPT ![k] = [i \in 1..Len(res.pkgs) |-> "none"]]
             /\ bres' = [bres EXCEPT ![k] = [i \in 1..Len(res.pkgs) |-> <<>>]]
             /\ n_build' = [n_build EXCEPT ![k] = [i \in 1..Len(res.pkgs) |-> 0]]
             /\ cpc' = [cpc EXCEPT ![k] = "install"]
        ELSE /\ cpc' = [cpc EXCEPT ![k] = "failed"]
             /\ UNCHANGED <<sem_count, commit_status, pkgs_value, pkgs, pkg_status, bpc, bres, n_build>>
  /\ UNCHANGED <<settings, commits_lock, goc, commits, nodes_created, packages, n_show>>
  /\ UNCHANGED repoVars
\* the tool ends: the closure returns, execute releases the permit; on Ok
\* the closure has published Idle (line 497), on Err CommitInfo::build returns
GetPkgs_Finish(k, out) ==
  /\ cpc[k] = "show"
  /\ sem_count' = release(sem_count)
  /\ LET res == get_pkgs_list(out, k)
     IN IF res.ok
        THEN /\ commit_status' = [commit_status EXCEPT ![k] = "Idle"]
             /\ pkgs_value' = [pkgs_value EXCEPT ![k] = out.value]
             /\ pkgs' = [pkgs EXCEPT ![k] = res.pkgs]
             /\ pkg_status' = [pkg_status EXCEPT ![k] = [i \in 1..Len(res.pkgs) |-> Idle]]
             /\ bpc' = [bpc EXCEPT ![k] = [i \in 1..Len(res.pkgs) |-> "none"]]
             /\ bres' = [bres EXCEPT ![k] = [i \in 1..Len(res.pkgs) |-> <<>>]]
             /\ n_build' = [n_build EXCEPT ![k] = [i \in 1..Len(res.pkgs) |-> 0]]
             /\ cpc' = [cpc EXCEPT ![k] = "install"]
        ELSE /\ cpc' = [cpc EXCEPT ![k] = "failed"]
             /\ UNCHANGED <<commit_status, pkgs_value, pkgs, pkg_status, bpc, bres, n_build>>
  /\ UNCHANGED <<settings, commits_lock, goc, commits, nodes_created, packages, n_show>>
  /\ UNCHANGED repoVars

\* an install that takes the write lock once per pushed target
CommitBuild_Install_piecewise(k) ==
  /\ cpc[k] = "install"
  /\ packages' = [packages EXCEPT ![k] =
                    IF Len(@) < Len(pkgs[k]) THEN Append(@, Len(@) + 1) ELSE @]
  /\ cpc' = [cpc EXCEPT ![k] =
               IF Len(packages[k]) + 1 >= Len(pkgs[k]) THEN "spawn" ELSE "install"]
  /\ UNCHANGED <<settings, commits_lock, goc, pkgs_value, sem_count, commits, nodes_created, commit_status, pkgs,
                 pkg_status, bpc, bres, n_show, n_build>>
  /\ UNCHANGED repoVars
\* CommitInfo::build, lines 451-456: every pkg pushed under one write lock
CommitBuild_Install(k) ==
  /\ cpc[k] = "install"
  /\ packages' = [packages EXCEPT ![k] = @ \o [i \in 1..Len(pkgs[k]) |-> i]]
  /\ cpc' = [cpc EXCEPT ![k] = "spawn"]
  /\ UNCHANGED <<settings, commits_lock, goc, pkgs_value, sem_count, commits, nodes_created, commit_status, pkgs,
                 pkg_status, bpc, bres, n_show, n_build>>
  /\ UNCHANGED repoVars

\* a discovery thread that marks its targets as waiting when it spawns
\* their build threads
CommitBuild_Spawn_marking(k) ==
  /\ cpc[k] = "spawn"
  /\ bpc' = [bpc EXCEPT ![k] = [i \in 1..Len(pkgs[k]) |-> "spawned"]]
  /\ pkg_status' = [pkg_status EXCEPT ![k] = [i \in 1..Len(pkgs[k]) |-> WaitingForBuild]]
  /\ commit_status' = [commit_status EXCEPT ![k] = "Idle"]
  /\ cpc' = [cpc EXCEPT ![k] = "done"]
  /\ UNCHANGED <<settings, commits_lock, goc, pkgs_value, sem_count, commits, nodes_created, packages, pkgs,
                 bres, n_show, n_build>>
  /\ UNCHANGED repoVars

\* CommitInfo::build, lines 457-460: pkg.build() spawns one thread per
\* target, then Idle is published
CommitBuild_Spawn(k) ==
  /\ cpc[k] = "spawn"
  /\ bpc' = [bpc EXCEPT ![k] = [i \in 1..Len(pkgs[k]) |-> "spawned"]]
  /\ commit_status' = [commit_status EXCEPT ![k] = "Idle"]
  /\ cpc' = [cpc EXCEPT ![k] = "done"]
  /\ UNCHANGED <<settings, commits_lock, goc, pkgs_value, sem_count, commits, nodes_created, packages, pkgs,
                 pkg_status, bres, n_show, n_build>>
  /\ UNCHANGED repoVars

\* ---------------------------------------------------------- build executor
\* a manifest of FlakeShowOutputs holds at most two targets
PkgIdx == 1..2
\* the targets discovered so far, over all repositories and commits
Targets == {t \in CommitKeys \X PkgIdx : t[2] \in DOMAIN pkgs[t[1]]}
SetStatus(k, i, st) == pkg_status' = [pkg_status EXCEPT ![k][i] = st]
SetBpc(k, i, p) == bpc' = [bpc EXCEPT ![k][i] = p]

\* an architecture check that passes every tag
arch_supported_any(pkg) == TRUE
\* Package::build lines 365-371
arch_supported(pkg) ==
  \E j \in 1..Len(settings.supported_architectures) :
     settings.supported_architectures[j] = pkg.arch

\* Package::build line 364, NixosConfigPackage::build line 613
Build_Start(k, i) ==
  /\ i \in DOMAIN bpc[k]
  /\ bpc[k][i] = "spawned"
  /\ SetStatus(k, i, Building)
  /\ SetBpc(k, i, "begun")
  /\ UNCHANGED <<settings, commits_lock, goc, pkgs_value, sem_count, commits, nodes_created, commit_status,
                 packages, cpc, pkgs, bres, n_show, n_build>>
  /\ UNCHANGED repoVars

\* an architecture check that every kind of target goes through, a
\* NixosConfig with no architecture to show
Package_Skip_every_kind(k, i) ==
  /\ i \in DOMAIN bpc[k]
  /\ bpc[k][i] = "begun"
  /\ LET arch == IF pkgs[k][i].kind = "Derivation" THEN pkgs[k][i].arch ELSE UNKNOWN
     IN /\ \A j \in 1..Len(settings.supported_architectures) :
              settings.supported_architectures[j] # arch
        /\ SetStatus(k, i, UnsupportedArchitecture(arch))
  /\ SetBpc(k, i, "done")
  /\ UNCHANGED <<settings, commits_lock, goc, pkgs_value, sem_count, commits, nodes_created, commit_status,
                 packages, cpc, pkgs, bres, n_show, n_build>>
  /\ UNCHANGED repoVars

\* Package::build lines 373-378
Package_Skip(k, i) ==
  /\ i \in DOMAIN bpc[k]
  /\ bpc[k][i] = "begun"
  /\ pkgs[k][i].kind = "Derivation"
  /\ ~arch_supported(pkgs[k][i])
  /\ SetStatus(k, i, UnsupportedArchitecture(pkgs[k][i].arch))
  /\ SetBpc(k, i, "done")
  /\ UNCHANGED <<settings, commits_lock, goc, pkgs_value, sem_count, commits, nodes_created, commit_status,
                 packages, cpc, pkgs, bres, n_show, n_build>>
  /\ UNCHANGED repoVars

\* build_static lines 553-557
BuildStatic_Wait(k, i) ==
  /\ i \in DOMAIN bpc[k]
  /\ bpc[k][i] = "begun"
  /\ pkgs[k][i].kind = "Derivation" => arch_supported(pkgs[k][i])
  /\ SetStatus(k, i, WaitingForBuild)
  /\ SetBpc(k, i, "waiting")
  /\ UNCHANGED <<settings, commits_lock, goc, pkgs_value, sem_count, commits, nodes_created, commit_status,
                 packages, cpc, pkgs, bres, n_show, n_build>>
  /\ UNCHANGED repoVars

\* build_static lines 558-570: execute acquires the permit, the closure
\* publishes Building and launches `nix build`
BuildStatic_Acquire(k, i) ==
  /\ i \in DOMAIN bpc[k]
  /\ bpc[k][i] = "waiting"
  /\ acquire_ready(sem_count)
  /\ sem_count' = acquire(sem_count)
  /\ SetStatus(k, i, Building)
  /\ n_build' = [n_build EXCEPT ![k][i] = @ + 1]
  /\ SetBpc(k, i, "running")
  /\ UNCHANGED <<settings, commits_lock, goc, pkgs_value, commits, nodes_created, commit_status, packages, cpc,
                 pkgs, bres, n_show>>
  /\ UNCHANGED repoVars

\* a closure that trims the tool's stderr as it trims its stdout
build_static_trimming(out) ==
  IF out.io = "error" THEN [ok |-> FALSE, v |-> IO_ERROR]
  ELSE IF out.code # 0 THEN [ok |-> FALSE, v |-> Trim(out.stderr)]
  ELSE [ok |-> TRUE, v |-> Trim(out.stdout)]
\* the closure of build_static on the tool's outcome out
build_static(out) ==
  IF out.io = "error" THEN [ok |-> FALSE, v |-> IO_ERROR]
  ELSE IF out.code # 0 THEN [ok |-> FALSE, v |-> out.stderr]
  ELSE [ok |-> TRUE, v |-> Trim(out.stdout)]

\* the tool ends: the closure returns and execute releases the permit
BuildStatic_Finish(k, i, out) ==
  /\ i \in DOMAIN bpc[k]
  /\ bpc[k][i] = "running"
  /\ sem_count' = release(sem_count)
  /\ bres' = [bres EXCEPT ![k][i] =
                [ok |-> build_static(out).ok, v |-> build_static(out).v, output |-> out]]
  /\ SetBpc(k, i, "released")
  /\ UNCHANGED <<settings, commits_lock, goc, pkgs_value, commits, nodes_created, commit_status, packages, cpc,
                 pkgs, pkg_status, n_show, n_build>>
  /\ UNCHANGED repoVars

\* a build thread that starts over after a failed build
Build_Publish_retrying(k, i) ==
  /\ i \in DOMAIN bpc[k]
  /\ bpc[k][i] = "released"
  /\ SetStatus(k, i, IF bres[k][i].ok THEN Success(bres[k][i].v) ELSE Failed(bres[k][i].v))
  /\ SetBpc(k, i, IF bres[k][i].ok \/ n_build[k][i] > 1 THEN "done" ELSE "spawned")
  /\ UNCHANGED <<settings, commits_lock, goc, pkgs_value, sem_count, commits, nodes_created, commit_status,
                 packages, cpc, pkgs, bres, n_show, n_build>>
  /\ UNCHANGED repoVars
\* a build thread whose failure marks every target of the commit Failed
Build_Publish_failing_all(k, i) ==
  /\ i \in DOMAIN bpc[k]
  /\ bpc[k][i] = "released"
  /\ pkg_status' = [pkg_status EXCEPT ![k] =
                      IF bres[k][i].ok THEN [@ EXCEPT ![i] = Success(bres[k][i].v)]
                      ELSE [j \in DOMAIN @ |-> Failed(bres[k][i].v)]]
  /\ SetBpc(k, i, "done")
  /\ UNCHANGED <<settings, commits_lock, goc, pkgs_value, sem_count, commits, nodes_created, commit_status,
                 packages, cpc, pkgs, bres, n_show, n_build>>
  /\ UNCHANGED repoVars
\* Package::build lines 380-387, NixosConfigPackage::build lines 615-622
Build_Publish(k, i) ==
  /\ i \in DOMAIN bpc[k]
  /\ bpc[k][i] = "released"
  /\ SetStatus(k, i, IF bres[k][i].ok THEN Success(bres[k][i].v) ELSE Failed(bres[k][i].v))
  /\ SetBpc(k, i, "done")
  /\ UNCHANGED <<settings, commits_lock, goc, pkgs_value, sem_count, commits, nodes_created, commit_status,
                 packages, cpc, pkgs, bres, n_show, n_build>>
  /\ UNCHANGED repoVars

\* ------------------------------------------------------ repository worker
\* the history of every origin: commit 1 is the root, commit 2 its child,
\* every later commit h merges h-1 (first parent) and h-2
Parents(h) == IF h = 1 THEN <<>> ELSE IF h = 2 THEN <<1>> ELSE <<h - 1, h - 2>>

\* u8::saturating_sub(1)
saturating_sub1(d) == IF d = 0 THEN 0 ELSE d - 1

\* a walk's state: the registry and the Vec `commits` of thread_loop
Push1(st, r, h) ==
  LET reg == get_or_create_commit(st.reg, r, h)
  IN [reg |-> reg, commits |-> Append(st.commits, reg.ret)]

RECURSIVE PushAll(_, _, _, _)
\* the first for loop of parse_commit_parents, from parent i on
PushAll(st, r, ps, i) ==
  IF i > Len(ps) THEN st ELSE PushAll(Push1(st, r, ps[i]), r, ps, i + 1)

RECURSIVE parse_commit_parents(_, _, _, _)
RECURSIVE RecurseAll(_, _, _, _, _)
RECURSIVE PushAndRecurse(_, _, _, _, _)
\* one loop that pushes a parent and walks its ancestors before the next
\* parent is pushed
PushAndRecurse(st, r, ps, i, depth) ==
  IF i > Len(ps) THEN st
  ELSE PushAndRecurse(parse_commit_parents(Push1(st, r, ps[i]), r, ps[i], depth - 1),
                      r, ps, i + 1, depth)
parse_commit_parents_depth_first(st, r, h, depth) ==
  IF depth = 0 THEN st ELSE PushAndRecurse(st, r, Parents(h), 1, depth)

\* RepoInfo::parse_commit_parents
parse_commit_parents(st, r, h, depth) ==
  IF depth = 0 THEN st
  ELSE RecurseAll(PushAll(st, r, Parents(h), 1), r, Parents(h), 1, depth)

\* the second for loop of parse_commit_parents, from parent i on
RecurseAll(st, r, ps, i, depth) ==
  IF i > Len(ps) THEN st
  ELSE RecurseAll(parse_commit_parents(st, r, ps[i], depth - 1), r, ps, i + 1, depth)

\* thread_loop lines 287-296: the tip, then its ancestors
WalkBranch(r, tip) ==
  parse_commit_parents(Push1([reg |-> Registry(r), commits |-> <<>>], r, tip),
                       r, tip, saturating_sub1(repo[r].build_depth))

Contains(seq, x) == \E i \in 1..Len(seq) : seq[i] = x
HashesOf(cs) == [i \in 1..Len(cs) |-> cs[i].hash]

\* the names of the checkout's remote branches, in reference order
RemoteNames == <<ORIGIN \o DEV, ORIGIN \o MAIN>>
BranchNames == {DEV, MAIN}

\* main lines 646-661: the RepoInfo of a configured repository is built
\* with its checkout path and its worker thread spawned
Main_RepoInfo(r) ==
  /\ pc[r] = "unborn"
  /\ checkout_path' = [checkout_path EXCEPT ![r] = checkout_path_of(url[r])]
  /\ pc' = [pc EXCEPT ![r] = "start"]
  /\ UNCHANGED <<repo, url, remote, checkout, local_refs, status, branch_commit_hashes, todo, log>>
  /\ UNCHANGED pipeVars

\* thread_poll line 203 / thread_loop line 246: clone_or_open publishes Opening
ThreadLoop_Begin(r) ==
  /\ pc[r] = "start"
  /\ status' = [status EXCEPT ![r] = "Opening"]
  /\ pc' = [pc EXCEPT ![r] = "open"]
  /\ UNCHANGED <<repo, url, checkout_path, remote, checkout, local_refs, branch_commit_hashes, todo, log>>
  /\ UNCHANGED pipeVars

\* clone_or_open: Repository::open succeeds, Idle is published
Open_Ok(r) ==
  /\ pc[r] = "open"
  /\ checkout[r]
  /\ status' = [status EXCEPT ![r] = "Idle"]
  /\ pc' = [pc EXCEPT ![r] = "poll"]
  /\ UNCHANGED <<repo, url, checkout_path, remote, checkout, local_refs, branch_commit_hashes, todo, log>>
  /\ UNCHANGED pipeVars

\* clone_or_open: Repository::open fails, clone_repo publishes Cloning
Open_Err(r) ==
  /\ pc[r] = "open"
  /\ ~checkout[r]
  /\ status' = [status EXCEPT ![r] = "Cloning"]
  /\ pc' = [pc EXCEPT ![r] = "clone"]
  /\ UNCHANGED <<repo, url, checkout_path, remote, checkout, local_refs, branch_commit_hashes, todo, log>>
  /\ UNCHANGED pipeVars

\* clone_repo: Repository::clone ends, Idle is published (lines 138, 155);
\* on Err thread_loop returns it and thread_poll prints it
Clone(r, ok) ==
  /\ pc[r] = "clone"
  /\ status' = [status EXCEPT ![r] = "Idle"]
  /\ IF ok
     THEN /\ checkout' = [checkout EXCEPT ![r] = TRUE]
          /\ local_refs' = [local_refs EXCEPT ![r] =
                              [n \in {ORIGIN \o b : b \in BranchNames} |->
                                 remote[r][Remove(n, ORIGIN)]]]
          /\ pc' = [pc EXCEPT ![r] = "poll"]
          /\ UNCHANGED log
     ELSE /\ pc' = [pc EXCEPT ![r] = "teardown"]
          /\ log' = [log EXCEPT ![r].loop = "clone"]
          /\ UNCHANGED <<checkout, local_refs>>
  /\ UNCHANGED <<repo, url, checkout_path, remote, branch_commit_hashes, todo>>
  /\ UNCHANGED pipeVars

\* thread_loop lines 256-267: Polling is published, the remote branches listed
Poll(r, ok) ==
  /\ pc[r] = "poll"
  /\ status' = [status EXCEPT ![r] = "Polling"]
  /\ IF ok
     THEN /\ todo' = [todo EXCEPT ![r] =
                        SelectSeq(RemoteNames, LAMBDA n : n \in DOMAIN local_refs[r])]
          /\ pc' = [pc EXCEPT ![r] = "scan"]
          /\ UNCHANGED log
     ELSE /\ pc' = [pc EXCEPT ![r] = "teardown"]
          /\ log' = [log EXCEPT ![r].loop = "branches"]
          /\ UNCHANGED todo
  /\ UNCHANGED <<repo, url, checkout_path, remote, checkout, local_refs, branch_commit_hashes>>
  /\ UNCHANGED pipeVars

\* thread_loop lines 268-279: a branch that is not monitored is passed over
Scan_Skip(r) ==
  /\ pc[r] = "scan"
  /\ todo[r] # <<>>
  /\ ~Contains(repo[r].branches, Remove(Head(todo[r]), ORIGIN))
  /\ todo' = [todo EXCEPT ![r] = Tail(@)]
  /\ UNCHANGED <<repo, url, checkout_path, remote, checkout, local_refs, status, branch_commit_hashes, pc, log>>
  /\ UNCHANGED pipeVars

\* a scan that stores the hashes of a branch without registering them
Scan_Branch_unregistered(r) ==
  /\ pc[r] = "scan"
  /\ todo[r] # <<>>
  /\ Contains(repo[r].branches, Remove(Head(todo[r]), ORIGIN))
  /\ LET st == WalkBranch(r, local_refs[r][Head(todo[r])])
     IN branch_commit_hashes' =
             [branch_commit_hashes EXCEPT ![r][Remove(Head(todo[r]), ORIGIN)] =
                HashesOf(st.commits)]
  /\ todo' = [todo EXCEPT ![r] = Tail(@)]
  /\ UNCHANGED <<repo, url, checkout_path, remote, checkout, local_refs, status, pc, log>>
  /\ UNCHANGED pipeVars

\* a scan that appends the hashes of the walk to the branch's entry
Scan_Branch_appending(r) ==
  /\ pc[r] = "scan"
  /\ todo[r] # <<>>
  /\ Contains(repo[r].branches, Remove(Head(todo[r]), ORIGIN))
  /\ LET st == WalkBranch(r, local_refs[r][Head(todo[r])])
     IN /\ Registered(st.reg, r)
        /\ branch_commit_hashes' =
             [branch_commit_hashes EXCEPT ![r][Remove(Head(todo[r]), ORIGIN)] =
                @ \o HashesOf(st.commits)]
  /\ todo' = [todo EXCEPT ![r] = Tail(@)]
  /\ UNCHANGED <<repo, url, checkout_path, remote, checkout, local_refs, status, pc, log>>
  /\ UNCHANGED <<settings, commits_lock, goc, pkgs_value, sem_count, commit_status, packages, pkgs, pkg_status,
                 bpc, bres, n_show, n_build>>

\* thread_loop lines 287-304: the branch is peeled to its tip, the tip and
\* its ancestors registered and the branch's hashes replaced
Scan_Branch(r) ==
  /\ pc[r] = "scan"
  /\ todo[r] # <<>>
  /\ Contains(repo[r].branches, Remove(Head(todo[r]), ORIGIN))
  /\ LET st == WalkBranch(r, local_refs[r][Head(todo[r])])
     IN /\ Registered(st.reg, r)
        /\ branch_commit_hashes' =
             [branch_commit_hashes EXCEPT ![r][Remove(Head(todo[r]), ORIGIN)] =
                HashesOf(st.commits)]
  /\ todo' = [todo EXCEPT ![r] = Tail(@)]
  /\ UNCHANGED <<repo, url, checkout_path, remote, checkout, local_refs, status, pc, log>>
  /\ UNCHANGED <<settings, commits_lock, goc, pkgs_value, sem_count, commit_status, packages, pkgs, pkg_status,
                 bpc, bres, n_show, n_build>>

\* thread_loop line 287: peel_to_commit fails and expect panics; nothing
\* catches the panic, the worker thread ends
Scan_Panic(r) ==
  /\ pc[r] = "scan"
  /\ todo[r] # <<>>
  /\ Contains(repo[r].branches, Remove(Head(todo[r]), ORIGIN))
  /\ pc' = [pc EXCEPT ![r] = "panicked"]
  /\ UNCHANGED <<repo, url, checkout_path, remote, checkout, local_refs, status, branch_commit_hashes, todo, log>>
  /\ UNCHANGED pipeVars

\* a pull that does not wait for the for_each over the branches to end
Pull_Begin_early(r) ==
  /\ pc[r] \in {"scan", "sleep"}
  /\ status' = [status EXCEPT ![r] = "Pulling"]
  /\ pc' = [pc EXCEPT ![r] = "fetch"]
  /\ UNCHANGED <<repo, url, checkout_path, remote, checkout, local_refs, branch_commit_hashes, todo, log>>
  /\ UNCHANGED pipeVars

\* pull line 164, after the scan or after the sleep of line 310
Pull_Begin(r) ==
  /\ \/ pc[r] = "scan" /\ todo[r] = <<>>
     \/ pc[r] = "sleep"
  /\ status' = [status EXCEPT ![r] = "Pulling"]
  /\ pc' = [pc EXCEPT ![r] = "fetch"]
  /\ UNCHANGED <<repo, url, checkout_path, remote, checkout, local_refs, branch_commit_hashes, todo, log>>
  /\ UNCHANGED pipeVars

\* the references a fetch of the refspecs `branches` updates: the monitored
\* branches, every branch when the list is empty
Fetched(r) ==
  IF repo[r].branches = <<>> THEN BranchNames
  ELSE {b \in BranchNames : Contains(repo[r].branches, b)}

AfterFetch(r) ==
  [n \in DOMAIN local_refs[r] |->
     IF Remove(n, ORIGIN) \in Fetched(r) THEN remote[r][Remove(n, ORIGIN)]
     ELSE local_refs[r][n]]

\* a pull that reports a change whatever the fetch brought
Fetch_always_changed(r, ok) ==
  /\ pc[r] = "fetch"
  /\ IF ok
     THEN /\ local_refs' = [local_refs EXCEPT ![r] = AfterFetch(r)]
          /\ status' = [status EXCEPT ![r] = "Idle"]
          /\ pc' = [pc EXCEPT ![r] = "poll"]
          /\ UNCHANGED log
     ELSE /\ pc' = [pc EXCEPT ![r] = "teardown"]
          /\ log' = [log EXCEPT ![r].loop = "fetch"]
          /\ UNCHANGED <<local_refs, status>>
  /\ UNCHANGED <<repo, url, checkout_path, remote, checkout, branch_commit_hashes, todo>>
  /\ UNCHANGED pipeVars

\* pull lines 166-198: Ok(has_changes) with Idle published, or the Err of
\* find_remote, references or fetch, which thread_loop returns
Fetch(r, ok) ==
  /\ pc[r] = "fetch"
  /\ IF ok
     THEN /\ local_refs' = [local_refs EXCEPT ![r] = AfterFetch(r)]
          /\ status' = [status EXCEPT ![r] = "Idle"]
          /\ pc' = [pc EXCEPT ![r] = IF AfterFetch(r) # local_refs[r] THEN "poll" ELSE "sleep"]
          /\ UNCHANGED log
     ELSE /\ pc' = [pc EXCEPT ![r] = "teardown"]
          /\ log' = [log EXCEPT ![r].loop = "fetch"]
          /\ UNCHANGED <<local_refs, status>>
  /\ UNCHANGED <<repo, url, checkout_path, remote, checkout, branch_commit_hashes, todo>>
  /\ UNCHANGED pipeVars

\* a teardown that drops the commit map with the checkout
Teardown_forgetting(r, ok) ==
  /\ pc[r] = "teardown"
  /\ IF ok
     THEN /\ checkout' = [checkout EXCEPT ![r] = FALSE]
          /\ local_refs' = [local_refs EXCEPT ![r] = <<>>]
     ELSE UNCHANGED <<checkout, local_refs>>
  /\ commits' = [commits EXCEPT ![r] = <<>>]
  /\ log' = [log EXCEPT ![r].delete = IF ok THEN "none" ELSE "rm"]
  /\ pc' = [pc EXCEPT ![r] = "start"]
  /\ UNCHANGED <<repo, url, checkout_path, remote, status, branch_commit_hashes, todo>>
  /\ UNCHANGED <<settings, commits_lock, goc, sem_count, nodes_created, commit_status, packages, cpc,
                 pkgs_value, pkgs, pkg_status, bpc, bres, n_show, n_build>>
\* a teardown that reports success and leaves the checkout where it is
Teardown_keeping(r, ok) ==
  /\ pc[r] = "teardown"
  /\ log' = [log EXCEPT ![r].delete = IF ok THEN "none" ELSE "rm"]
  /\ pc' = [pc EXCEPT ![r] = "start"]
  /\ UNCHANGED <<repo, url, checkout_path, remote, checkout, local_refs, status, branch_commit_hashes, todo>>
  /\ UNCHANGED pipeVars
\* a teardown that sends every repository's worker back to the start
Teardown_restarting_all(r, ok) ==
  /\ pc[r] = "teardown"
  /\ IF ok
     THEN /\ checkout' = [checkout EXCEPT ![r] = FALSE]
          /\ local_refs' = [local_refs EXCEPT ![r] = <<>>]
     ELSE UNCHANGED <<checkout, local_refs>>
  /\ log' = [log EXCEPT ![r].delete = IF ok THEN "none" ELSE "rm"]
  /\ pc' = [q \in Repos |-> IF pc[q] = "panicked" THEN pc[q] ELSE "start"]
  /\ UNCHANGED <<repo, url, checkout_path, remote, status, branch_commit_hashes, todo>>
  /\ UNCHANGED pipeVars
\* thread_poll lines 206-208, delete_repo: rm -rf removes the checkout or
\* fails; either way the loop of thread_poll goes round
Teardown(r, ok) ==
  /\ pc[r] = "teardown"
  /\ IF ok
     THEN /\ checkout' = [checkout EXCEPT ![r] = FALSE]
          /\ local_refs' = [local_refs EXCEPT ![r] = <<>>]
     ELSE UNCHANGED <<checkout, local_refs>>
  /\ log' = [log EXCEPT ![r].delete = IF ok THEN "none" ELSE "rm"]
  /\ pc' = [pc EXCEPT ![r] = "start"]
  /\ UNCHANGED <<repo, url, checkout_path, remote, status, branch_commit_hashes, todo>>
  /\ UNCHANGED pipeVars

\* somebody pushes to origin: branch b of repository r now points at h
Push(r, b, h) ==
  /\ remote[r][b] # h
  /\ remote' = [remote EXCEPT ![r][b] = h]
  /\ UNCHANGED <<repo, url, checkout_path, checkout, local_refs, status, branch_commit_hashes, pc, todo, log>>
  /\ UNCHANGED pipeVars

\* ------------------------------------------------------- the build engine
\* main lines 630-642: the settings are read and the semaphore initialised
\* before any worker is spawned
SettingsSet ==
  {[n_build_threads |-> n, supported_architectures |-> <<X86_64_LINUX>>] :
     n \in 0..MaxThreads}

\* Repo: the monitored branches and the build depth
RepoSet ==
  {[branches |-> bs, build_depth |-> d] :
     bs \in {<<>>, <<MAIN>>, <<MAIN, DEV>>}, d \in 1..MaxDepth}

\* RepoInfo::new
RepoInfo_new(cfg) ==
  [b \in {cfg.branches[i] : i \in 1..Len(cfg.branches)} |-> <<>>]

InitPipe ==
  /\ sem_count = build_pool_size(settings)
  /\ commits = [r \in Repos |-> <<>>]
  /\ nodes_created = 0
  /\ commit_status = [k \in CommitKeys |-> "Idle"]
  /\ packages = [k \in CommitKeys |-> <<>>]
  /\ cpc = [k \in CommitKeys |-> "none"]
  /\ commits_lock = [r \in Repos |-> "free"]
  /\ goc = [r \in Repos |-> [pc |-> "idle", h |-> 0]]
  /\ pkgs_value = [k \in CommitKeys |-> JObj(<<>>)]
  /\ pkgs = [k \in CommitKeys |-> <<>>]
  /\ pkg_status = [k \in CommitKeys |-> <<>>]
  /\ bpc = [k \in CommitKeys |-> <<>>]
  /\ bres = [k \in CommitKeys |-> <<>>]
  /\ n_show = [k \in CommitKeys |-> 0]
  /\ n_build = [k \in CommitKeys |-> <<>>]

InitRepo ==
  /\ url = [r \in Repos |-> DefaultUrl(r)]
  /\ checkout_path = [r \in Repos |-> checkout_path_of(url[r])]
  /\ remote = [r \in Repos |-> [b \in BranchNames |-> 1]]
  /\ checkout = [r \in Repos |-> FALSE]
  /\ local_refs = [r \in Repos |-> <<>>]
  /\ status = [r \in Repos |-> "Idle"]
  /\ branch_commit_hashes = [r \in Repos |-> RepoInfo_new(repo[r])]
  /\ pc = [r \in Repos |-> "start"]
  /\ todo = [r \in Repos |-> <<>>]
  /\ log = [r \in Repos |-> [loop |-> "none", delete |-> "none"]]

Discovery ==
  \E k \in CommitKeys :
     \/ CommitBuild_Start(k)
     \/ GetPkgs_Acquire(k)
     \/ \E out \in FlakeShowOutputs : GetPkgs_Finish(k, out)
     \/ CommitBuild_Install(k)
     \/ CommitBuild_Spawn(k)

Builds ==
  \E k \in CommitKeys, i \in PkgIdx :
     \/ Build_Start(k, i)
     \/ Package_Skip(k, i)
     \/ BuildStatic_Wait(k, i)
     \/ BuildStatic_Acquire(k, i)
     \/ \E out \in BuildOutputs : BuildStatic_Finish(k, i, out)
     \/ Build_Publish(k, i)

vars == <<pipeVars, repoVars>>

\* The build engine: discovery and build threads of the commits the workers
\* reach, under every order in which the workers can reach them.
PipeKeys == {k \in CommitKeys : (k[2] - 1) * Cardinality(Repos) + k[1] <= MaxCommits}
Init ==
  /\ settings \in SettingsSet
  /\ repo = [r \in Repos |-> [branches |-> <<MAIN, DEV>>, build_depth |-> 1]]
  /\ InitPipe
  /\ InitRepo
Next ==
  \/ \E k \in PipeKeys : Visit(k[1], k[2])
  \/ Discovery
  \/ Builds
Spec == Init /\ [][Next]_vars

\* A repository worker: open or clone, scan, pull, teardown, against an
\* origin that moves.  Workers share nothing but the semaphore, which they
\* never touch, so one worker is followed; the discovery threads it spawns
\* read and write nothing of a worker's, and are left where they start.
Workers == {1}
InitRepoSpec ==
  /\ settings \in {s \in SettingsSet : s.n_build_threads = 0}
  /\ repo \in {f \in [Repos -> RepoSet] :
                 \A r \in Repos \ Workers : f[r] = [branches |-> <<MAIN, DEV>>, build_depth |-> 1]}
  /\ InitPipe
  /\ InitRepo
NextRepo ==
  \E r \in Workers :
     \/ ThreadLoop_Begin(r)
     \/ Open_Ok(r)
     \/ Open_Err(r)
     \/ \E ok \in BOOLEAN : Clone(r, ok)
     \/ \E ok \in BOOLEAN : Poll(r, ok)
     \/ Scan_Skip(r)
     \/ Scan_Branch(r)
     \/ Scan_Panic(r)
     \/ Pull_Begin(r)
     \/ \E ok \in BOOLEAN : Fetch(r, ok)
     \/ \E ok \in BOOLEAN : Teardown(r, ok)
     \/ \E b \in BranchNames, h \in Hashes : Push(r, b, h)
SpecRepo == InitRepoSpec /\ [][NextRepo]_vars

\* The whole system for one repository whose origin stands still with both
\* branches at commit 1: the worker, and the discovery and build threads of
\* the commits it reaches.
InitSystem ==
  /\ settings \in SettingsSet
  /\ repo = [r \in Repos |-> [branches |-> <<MAIN, DEV>>, build_depth |-> 1]]
  /\ InitPipe
  /\ InitRepo
NextSystem ==
  \/ \E r \in Workers :
        \/ ThreadLoop_Begin(r)
        \/ Open_Ok(r)
        \/ Open_Err(r)
        \/ \E ok \in BOOLEAN : Clone(r, ok)
        \/ \E ok \in BOOLEAN : Poll(r, ok)
        \/ Scan_Branch(r)
        \/ Scan_Panic(r)
        \/ Pull_Begin(r)
        \/ \E ok \in BOOLEAN : Fetch(r, ok)
        \/ \E ok \in BOOLEAN : Teardown(r, ok)
  \/ Discovery
  \/ Builds
SpecSystem == InitSystem /\ [][NextSystem]_vars

\* ================================================================== claims
\* the permits of the build semaphore
N == build_pool_size(settings)
StatusOf(t) == pkg_status[t[1]][t[2]]
StepOf(t) == bpc[t[1]][t[2]]
\* the targets whose build thread is inside Semaphore::execute
HoldsPermit(t) == StepOf(t) = "running"
\* the external tool invocations in progress
ShowsInProgress == {k \in CommitKeys : cpc[k] = "show"}
BuildsInProgress == {t \in Targets : StepOf(t) = "running"}
\* a Derivation whose architecture tag is not in supported_architectures
Unsupported(t) ==
  /\ pkgs[t[1]][t[2]].kind = "Derivation"
  /\ \A j \in 1..Len(settings.supported_architectures) :
        settings.supported_architectures[j] # pkgs[t[1]][t[2]].arch

\* C1: at every instant the number of targets whose BuildStatus is Building
\* is at most N (n_build_threads, or the cpu count when that is 0).
C1_BuildingAtMostN ==
  Cardinality({t \in Targets : StatusOf(t) = Building}) <= N

\* C2: a target is never observable as Building while it holds no permit,
\* and the status of a built target only steps Idle -> WaitingForBuild ->
\* Building -> Success or Failed.
StatusStep(old, new) ==
  \/ old = Idle /\ new = WaitingForBuild
  \/ old = Idle /\ new.tag = "UnsupportedArchitecture"
  \/ old = WaitingForBuild /\ new = Building
  \/ old = Building /\ new.tag \in {"Success", "Failed"}
C2_WaitingThenBuilding ==
  /\ [](\A t \in Targets : StatusOf(t) = Building => HoldsPermit(t))
  /\ [][\A k \in CommitKeys : \A i \in DOMAIN pkg_status[k] :
          pkg_status'[k][i] # pkg_status[k][i] =>
             StatusStep(pkg_status[k][i], pkg_status'[k][i])]_vars

\* C3: at every instant the flake-show enumerations and builds in progress
\* number at most N, and each of them holds exactly one permit: the permits
\* out are as many as the invocations in progress.
C3_InvocationsAtMostN ==
  /\ Cardinality(ShowsInProgress) + Cardinality(BuildsInProgress) <= N
  /\ N - sem_count = Cardinality(ShowsInProgress) + Cardinality(BuildsInProgress)
\* C3 witness: every permit is out, to an enumeration and a build at once
C3_Saturated ==
  /\ ShowsInProgress # {}
  /\ BuildsInProgress # {}
  /\ sem_count = 0

\* C4: the commit map of a repository holds exactly one node per hash ever
\* registered; registering a hash again creates nothing and starts
\* nothing; no entry is ever removed or replaced, teardown and re-clone
\* included.
C4_OneNodePerHash ==
  /\ [](/\ nodes_created =
             Cardinality({k \in CommitKeys : k[2] \in DOMAIN commits[k[1]]})
        /\ \A r \in Repos : \A h \in DOMAIN commits[r] : commits[r][h].hash = h
        /\ \A r \in Repos : \A b \in DOMAIN branch_commit_hashes[r] :
              \A i \in 1..Len(branch_commit_hashes[r][b]) :
                 branch_commit_hashes[r][b][i] \in DOMAIN commits[r])
  /\ [][/\ \A r \in Repos : \A h \in DOMAIN commits[r] :
              h \in DOMAIN commits'[r] /\ commits'[r][h] = commits[r][h]
        /\ \A k \in CommitKeys :
              cpc'[k] # cpc[k] => k[2] \notin DOMAIN commits[k[1]]]_vars
\* C4 witness: one node exists, the worker scanned, lost its checkout after
\* a failed fetch, cloned again and scanned both branches again
C4_RegisteredAgain ==
  \E r \in Workers :
     /\ log[r].loop = "fetch"
     /\ log[r].delete = "none"
     /\ pc[r] = "scan"
     /\ todo[r] = <<>>
     /\ repo[r].branches = <<MAIN, DEV>>
     /\ nodes_created = 1
     /\ branch_commit_hashes[r][MAIN] = branch_commit_hashes[r][DEV]
     /\ branch_commit_hashes[r][MAIN] # <<>>

\* C5: for any commit hash of a repository `nix flake show` is launched at
\* most once and each target is built at most once, however many branches
\* and poll cycles reach the hash.
C5_OneDiscoveryOneBuild ==
  /\ \A k \in CommitKeys : n_show[k] <= 1
  /\ \A t \in Targets : n_build[t[1]][t[2]] <= 1
\* C5 witness: commit 1 was reached by both branches, in a poll cycle before
\* a failed fetch and in one after the re-clone, and its two targets were
\* built
C5_ReachedAgainAndBuilt ==
  \E r \in Workers :
     /\ log[r].loop = "fetch"
     /\ pc[r] = "scan"
     /\ todo[r] = <<>>
     /\ branch_commit_hashes[r][MAIN] = <<1>>
     /\ branch_commit_hashes[r][DEV] = <<1>>
     /\ n_show[<<r, 1>>] = 1
     /\ Len(n_build[<<r, 1>>]) = 2
     /\ \A i \in 1..2 : n_build[<<r, 1>>][i] = 1 /\ bpc[<<r, 1>>][i] = "done"

\* C6: after every successful scan of the branches, the hashes stored for a
\* monitored branch are at most build_depth and start with the branch's tip.
C6_AtMostDepthFromTip ==
  \A r \in Workers :
     pc[r] = "scan" /\ todo[r] = <<>> =>
        \A b \in DOMAIN branch_commit_hashes[r] :
           /\ Len(branch_commit_hashes[r][b]) <= repo[r].build_depth
           /\ Len(branch_commit_hashes[r][b]) >= 1
           /\ branch_commit_hashes[r][b][1] = local_refs[r][ORIGIN \o b]

\* C7: a Derivation whose architecture tag is not supported ends as
\* UnsupportedArchitecture(arch); `nix build` is never invoked for it and
\* it never takes a permit.
C7_UnsupportedNeverBuilt ==
  \A t \in Targets :
     Unsupported(t) =>
        /\ n_build[t[1]][t[2]] = 0
        /\ StepOf(t) \in {"none", "spawned", "begun", "done"}
        /\ StepOf(t) = "done" =>
              StatusOf(t) = UnsupportedArchitecture(pkgs[t[1]][t[2]].arch)
\* C7 witness: a Derivation of a known but unsupported architecture, and
\* one whose path names no architecture, have ended
C7_Skipped ==
  \E k \in CommitKeys :
     /\ Len(pkgs[k]) = 2
     /\ Unsupported(<<k, 1>>) /\ bpc[k][1] = "done" /\ pkgs[k][1].arch = AARCH64_LINUX
     /\ Unsupported(<<k, 2>>) /\ bpc[k][2] = "done" /\ pkgs[k][2].arch = UNKNOWN

\* C8: a repository worker never exits, whatever fails in open, clone or a
\* poll cycle.
C8_WorkerNeverExits ==
  \A r \in Workers : pc[r] # "panicked"

C10_FailedDiscoveryIdle ==
  \A k \in CommitKeys :
     cpc[k] = "failed" => packages[k] = <<>> /\ commit_status[k] = "Idle"

\* the complete enumerated list of commit k, as CommitInfo::build installs it
Installed(k) == [i \in 1..Len(pkgs[k]) |-> i]

\* C11: a commit's status goes Idle, GettingPackages, Idle, and is back at
\* Idle only after the enumerated list is installed and a build thread is
\* spawned per target: whoever sees a discovered commit at Idle sees its list.
C11_IdleAfterInstall ==
  \A k \in CommitKeys :
     cpc[k] \in {"install", "spawn", "done"} /\ commit_status[k] = "Idle" =>
        /\ packages[k] = Installed(k)
        /\ \A i \in DOMAIN bpc[k] : bpc[k][i] # "none"

\* C12: a commit's target list is installed all-or-nothing: a reader sees
\* the empty list or the complete enumerated list, and after a failed
\* discovery nothing is installed.
C12_AllOrNothing ==
  \A k \in CommitKeys :
     /\ packages[k] = <<>> \/ packages[k] = Installed(k)
     /\ cpc[k] \in {"none", "spawned", "acquire", "show", "failed", "install"} =>
           packages[k] = <<>>
     /\ cpc[k] \in {"spawn", "done"} => packages[k] = Installed(k)
\* C12 witness: one commit has its two targets installed, another failed
\* discovery and has none
C12_InstalledAndFailed ==
  \E k1, k2 \in CommitKeys :
     /\ Len(packages[k1]) = 2 /\ Len(pkgs[k1]) = 2
     /\ cpc[k2] = "failed" /\ packages[k2] = <<>>

\* C13: Semaphore::execute gives its permit back on every exit path of the
\* closure, failure included: the step that leaves execute adds one permit
\* whatever the closure returned, and with nobody inside execute every
\* permit is available.
C13_ReleasedOnEveryPath ==
  /\ [][/\ \A k \in CommitKeys :
              cpc[k] = "show" /\ cpc'[k] # "show" =>
                 sem_count' = sem_count + 1 /\ cpc'[k] \in {"install", "failed"}
        /\ \A k \in CommitKeys : \A i \in DOMAIN bpc[k] :
              bpc[k][i] = "running" /\ bpc'[k][i] # "running" =>
                 sem_count' = sem_count + 1 /\ bpc'[k][i] = "released"]_vars
  /\ [](ShowsInProgress = {} /\ BuildsInProgress = {} => sem_count = N)
\* C13 witness: an enumeration and a build have failed inside execute, and
\* every permit is available again
C13_FailedAndReleased ==
  /\ sem_count = N
  /\ \E k \in CommitKeys : cpc[k] = "failed"
  /\ \E t \in Targets : StepOf(t) = "released" /\ ~bres[t[1]][t[2]].ok

\* the targets whose `nix build` ran and ended, and whose status is final
Built(t) == StepOf(t) = "done" /\ n_build[t[1]][t[2]] = 1
Exited(t) == Built(t) /\ bres[t[1]][t[2]].output.io = "ok"

Terminal(st) == st.tag \in {"Success", "Failed", "UnsupportedArchitecture"}

\* C15: there is no retry: `nix build` is invoked at most once per target,
\* and a status of Success, Failed or UnsupportedArchitecture never changes.
C15_NoRetry ==
  /\ [](\A t \in Targets : n_build[t[1]][t[2]] <= 1)
  /\ [][\A k \in CommitKeys : \A i \in DOMAIN pkg_status[k] :
          /\ Terminal(pkg_status[k][i]) => pkg_status'[k][i] = pkg_status[k][i]
          /\ n_build[k][i] = 1 => n_build'[k][i] = 1]_vars
\* C15 witness: a target has failed, another succeeded, another was
\* skipped, and their threads have ended
C15_AllTerminal ==
  /\ \E t \in Targets : StepOf(t) = "done" /\ StatusOf(t).tag = "Failed"
  /\ \E t \in Targets : StepOf(t) = "done" /\ StatusOf(t).tag = "Success"
  /\ \E t \in Targets : StepOf(t) = "done" /\ StatusOf(t).tag = "UnsupportedArchitecture"

\* The build engine with every thread scheduled and every external tool
\* ending: a thread that can take its next step takes it.
Fairness ==
  \A k \in PipeKeys :
     /\ WF_vars(CommitBuild_Start(k))
     /\ WF_vars(GetPkgs_Acquire(k))
     /\ WF_vars(\E out \in FlakeShowOutputs : GetPkgs_Finish(k, out))
     /\ WF_vars(CommitBuild_Install(k))
     /\ WF_vars(CommitBuild_Spawn(k))
     /\ \A i \in PkgIdx :
           /\ WF_vars(Build_Start(k, i))
           /\ WF_vars(Package_Skip(k, i))
           /\ WF_vars(BuildStatic_Wait(k, i))
           /\ WF_vars(BuildStatic_Acquire(k, i))
           /\ WF_vars(\E out \in BuildOutputs : BuildStatic_Finish(k, i, out))
           /\ WF_vars(Build_Publish(k, i))
SpecFair == Spec /\ Fairness

\* the step in which the build of target i of commit k fails or is
\* published as Failed
FailStep(k, i) ==
  \/ bpc[k][i] = "running" /\ bpc'[k][i] = "released" /\ ~bres'[k][i].ok
  \/ pkg_status[k][i].tag # "Failed" /\ pkg_status'[k][i].tag = "Failed"

\* C16: a failed build changes only the status of its own target: its
\* siblings' statuses and build attempts, the commit's status and target
\* list stay as they are, and every sibling still reaches a terminal status.
C16_FailureContained ==
  /\ [][\A k \in CommitKeys : \A i \in DOMAIN bpc[k] :
          FailStep(k, i) =>
             /\ \A j \in DOMAIN bpc[k] \ {i} :
                   /\ pkg_status'[k][j] = pkg_status[k][j]
                   /\ n_build'[k][j] = n_build[k][j]
                   /\ bpc'[k][j] = bpc[k][j]
             /\ commit_status'[k] = commit_status[k]
             /\ packages'[k] = packages[k]]_vars
  /\ \A k \in PipeKeys : \A i \in PkgIdx :
        (/\ i \in DOMAIN bpc[k]
         /\ bpc[k][i] # "none"
         /\ \E j \in DOMAIN bpc[k] \ {i} : pkg_status[k][j].tag = "Failed")
        ~> (i \in DOMAIN bpc[k] /\ bpc[k][i] = "done" /\ Terminal(pkg_status[k][i]))
\* C16 witness: the first target of a commit failed, its sibling was built
\* and succeeded
C16_SiblingSucceeded ==
  \E k \in CommitKeys :
     /\ Len(pkgs[k]) = 2
     /\ bpc[k][1] = "done" /\ pkg_status[k][1].tag = "Failed"
     /\ bpc[k][2] = "done" /\ pkg_status[k][2].tag = "Success"

\* Every configured repository's worker, each monitoring main at depth 1
\* of an origin that stands still.
WorkerStep(r) ==
  \/ ThreadLoop_Begin(r)
  \/ Open_Ok(r)
  \/ Open_Err(r)
  \/ \E ok \in BOOLEAN : Clone(r, ok)
  \/ \E ok \in BOOLEAN : Poll(r, ok)
  \/ Scan_Skip(r)
  \/ Scan_Branch(r)
  \/ Scan_Panic(r)
  \/ Pull_Begin(r)
  \/ \E ok \in BOOLEAN : Fetch(r, ok)
  \/ \E ok \in BOOLEAN : Teardown(r, ok)
InitWorkers ==
  /\ settings \in {s \in SettingsSet : s.n_build_threads = 0}
  /\ repo = [r \in Repos |-> [branches |-> <<MAIN>>, build_depth |-> 1]]
  /\ InitPipe
  /\ InitRepo
NextWorkers == \E r \in Repos : WorkerStep(r)
SpecWorkers == InitWorkers /\ [][NextWorkers]_vars

\* what the status model shows of repository r: its RepoStatus, branch
\* hashes, commit map, and the discovery and targets of its commits
Shown(r) ==
  <<status[r], branch_commit_hashes[r], commits[r],
    [h \in Hashes |-> <<commit_status[<<r, h>>], packages[<<r, h>>], pkg_status[<<r, h>>]>>]>>
\* the step in which the worker of repository r fails or tears down
WorkerFails(r) ==
  \/ pc[r] # "teardown" /\ pc'[r] = "teardown"
  \/ pc[r] = "teardown" /\ pc'[r] # "teardown"

\* C17: a failure in one repository's worker (open, clone, fetch, teardown)
\* leaves what is shown of every other repository unchanged, and neither
\* moves nor blocks another worker: a worker that has not ended always has
\* a next step, wherever the others stand.
C17_WorkersIndependent ==
  /\ [][\A r \in Repos :
          WorkerFails(r) =>
             \A q \in Repos \ {r} :
                /\ Shown(q)' = Shown(q)
                /\ pc'[q] = pc[q]]_vars
  /\ [](\A q \in Repos : pc[q] # "panicked" => ENABLED WorkerStep(q))
\* C17 witness: the first worker lost its checkout after a failed fetch
\* while the second sleeps between pulls on a checkout it never lost
C17_OneFailedOtherPolling ==
  /\ log[1].loop = "fetch" /\ pc[1] = "start" /\ ~checkout[1]
  /\ log[2].loop = "none" /\ pc[2] = "sleep" /\ checkout[2] /\ status[2] = "Idle"
  /\ branch_commit_hashes[2][MAIN] = <<1>>

\* C18: with an empty branches list every branch of the remote is
\* monitored: after a scan the tip of every remote branch is registered.
C18_EmptyMeansAll ==
  \A r \in Workers :
     repo[r].branches = <<>> /\ pc[r] = "scan" /\ todo[r] = <<>> =>
        \A n \in DOMAIN local_refs[r] : local_refs[r][n] \in DOMAIN commits[r]

\* main, lines 630-642: the configuration is deserialized and used as it
\* is; no entry of supported_architectures is looked up in ARCHITECTURES
main_accepts(s) == TRUE
Canonical(a) == \E j \in 1..Len(ARCHITECTURES) : ARCHITECTURES[j] = a
\* the configurations startup is given: supported_architectures with and
\* without an entry that is no canonical tag
StartupSettings ==
  {[n_build_threads |-> 1, supported_architectures |-> as] :
     as \in {<<X86_64_LINUX>>, <<K_wasm32_linux>>, <<X86_64_LINUX, K_wasm32_linux>>}}
InitStartup ==
  /\ settings \in {s \in StartupSettings : main_accepts(s)}
  /\ repo = [r \in Repos |-> [branches |-> <<MAIN, DEV>>, build_depth |-> 1]]
  /\ InitPipe
  /\ InitRepo
SpecStartup == InitStartup /\ [][Next]_vars

\* C19: under a supported_architectures with an entry that is not one of
\* the 24 canonical tags startup is rejected: no discovery and no build
\* ever runs.
C19_RejectedAtStartup ==
  (\E j \in 1..Len(settings.supported_architectures) :
      ~Canonical(settings.supported_architectures[j])) =>
     /\ \A k \in CommitKeys : cpc[k] = "none" /\ n_show[k] = 0
     /\ Targets = {}

\* The enumerator on every manifest of a family: two entries at the top,
\* under plain keys and a key that holds a '.', in either order, each a
\* target, a scalar, an array or an object of one entry; and the manifests
\* that are a target themselves.  The targets include one that carries the
\* keys of both kinds, and one of each kind that has a target for a child.
\* A second commit is shown a manifest of a small part of the family, so
\* that two commits meet the same manifest.
K_a == <<"a">>
K_b == <<"b">>
K_a_b == <<"a", ".", "b">>
DrvCfg ==
  JObj(<<KV(K_description, JStr(<<"d">>)), KV(K_name, JStr(K_host)),
         KV(K_type, JStr(V_nixos_configuration))>>)
DrvNested ==
  JObj(<<KV(K_b, Drv), KV(K_description, JStr(<<"d">>)), KV(K_name, JStr(K_hello)),
         KV(K_type, JStr(V_derivation))>>)
CfgNested == JObj(<<KV(K_b, Drv), KV(K_type, JStr(V_nixos_configuration))>>)
EnumLeaves == {Drv, NixosCfg, JStr(<<"x">>), JArr, DrvCfg, DrvNested, CfgNested}
EnumInner == {JObj(<<KV(k, v)>>) : k \in {K_a, K_b, K_host}, v \in EnumLeaves}
EnumManifests ==
  {JObj(<<KV(ks[1], v1), KV(ks[2], v2)>>) :
     ks \in {p \in {K_a, K_a_b, K_nixosConfigurations} \X {K_a, K_a_b, K_nixosConfigurations} :
               p[1] # p[2]},
     v1 \in EnumInner \cup EnumLeaves, v2 \in EnumInner \cup EnumLeaves}
  \cup {Drv, NixosCfg}
EnumAgain ==
  {JObj(<<KV(K_a, v1), KV(K_nixosConfigurations, v2)>>) :
     v1 \in {Drv, JArr, JObj(<<KV(K_b, Drv)>>)},
     v2 \in {NixosCfg, JObj(<<KV(K_host, NixosCfg)>>), JObj(<<KV(K_host, DrvCfg)>>)}}
EnumKey == <<1, 1>>
EnumKey2 == <<2, 1>>
InitEnum ==
  /\ settings \in {s \in SettingsSet : s.n_build_threads = 0}
  /\ repo = [r \in Repos |-> [branches |-> <<MAIN, DEV>>, build_depth |-> 1]]
  /\ InitPipe
  /\ InitRepo
NextEnum ==
  \/ \E k \in {EnumKey, EnumKey2} :
        \/ Visit(k[1], k[2])
        \/ CommitBuild_Start(k)
        \/ GetPkgs_Acquire(k)
  \/ \E m \in EnumManifests :
        GetPkgs_Finish(EnumKey, [io |-> "ok", code |-> 0, stdout |-> "json", value |-> m])
  \/ \E m \in EnumAgain :
        GetPkgs_Finish(EnumKey2, [io |-> "ok", code |-> 0, stdout |-> "json", value |-> m])
SpecEnum == InitEnum /\ [][NextEnum]_vars

\* C20: enumeration ends on every manifest, keys that hold a '.'
\* included, and emits at most one target per dotted path.
C20_OneTargetPerPath ==
  \A k \in CommitKeys : \A i, j \in DOMAIN pkgs[k] :
     i # j => pkgs[k][i].path # pkgs[k][j].path

\* What the enumeration of a manifest is to be, said without the traversal.
\* A position is the sequence of entry numbers that leads from the top of
\* the manifest to a value.
RECURSIVE Positions(_)
Positions(v) ==
  IF v.t # "object" THEN {<<>>}
  ELSE {<<>>} \cup UNION {{<<i>> \o p : p \in Positions(v.m[i].v)} : i \in 1..Len(v.m)}
RECURSIVE NodeAt(_, _)
NodeAt(v, pos) == IF pos = <<>> THEN v ELSE NodeAt(v.m[Head(pos)].v, Tail(pos))
RECURSIVE PathAt(_, _)
\* the keys on the way to pos, joined by '.'
PathAt(v, pos) ==
  IF pos = <<>> THEN <<>>
  ELSE IF Len(pos) = 1 THEN v.m[pos[1]].k
  ELSE v.m[pos[1]].k \o <<".">> \o PathAt(v.m[pos[1]].v, Tail(pos))
StrEntry(v, key) == \E i \in DOMAIN v.m : v.m[i].k = key /\ v.m[i].v.t = "string"
IsDerivation(v) ==
  v.t = "object" /\ StrEntry(v, K_description) /\ StrEntry(v, K_name) /\ StrEntry(v, K_type)
IsSystemConfig(v, path) ==
  /\ v.t = "object"
  /\ ~IsDerivation(v)
  /\ StartsWith(path, K_nixosConfigurations)
  /\ \E i \in DOMAIN v.m : v.m[i].k = K_type /\ v.m[i].v = JStr(V_nixos_configuration)
IsTarget(v, path) == IsDerivation(v) \/ IsSystemConfig(v, path)
ProperPrefixes(pos) == {SubSeq(pos, 1, n) : n \in 0..(Len(pos) - 1)}
\* the targets no target encloses
Emitted(man) ==
  {pos \in Positions(man) :
     /\ IsTarget(NodeAt(man, pos), PathAt(man, pos))
     /\ \A q \in ProperPrefixes(pos) : ~IsTarget(NodeAt(man, q), PathAt(man, q))}
\* pos comes before q when the traversal goes depth first in key order
Before(pos, q) ==
  \E i \in 1..Len(pos) :
     /\ i <= Len(q)
     /\ pos[i] < q[i]
     /\ \A j \in 1..(i - 1) : pos[j] = q[j]
Rank(man, pos) == Cardinality({q \in Emitted(man) : Before(q, pos)}) + 1
KindAt(man, pos) == IF IsDerivation(NodeAt(man, pos)) THEN "Derivation" ELSE "NixosConfig"
StoredPathAt(man, pos) ==
  IF IsDerivation(NodeAt(man, pos)) THEN PathAt(man, pos)
  ELSE PathAt(man, pos) \o TOPLEVEL_SUFFIX
KindPaths(ps) == [i \in DOMAIN ps |-> <<ps[i].kind, ps[i].path>>]

\* C21: the list enumeration yields for a manifest holds the targets no
\* target encloses, each once, in the depth-first order of the manifest's
\* keys; two commits shown the same manifest get lists with the same kinds
\* and paths in the same order.
C21_DepthFirstInKeyOrder ==
  /\ \A k \in CommitKeys :
        /\ Len(pkgs[k]) = Cardinality(Emitted(pkgs_value[k]))
        /\ \A pos \in Emitted(pkgs_value[k]) :
              KindPaths(pkgs[k])[Rank(pkgs_value[k], pos)]
                = <<KindAt(pkgs_value[k], pos), StoredPathAt(pkgs_value[k], pos)>>
  /\ \A k1, k2 \in CommitKeys :
        pkgs_value[k1] = pkgs_value[k2] => KindPaths(pkgs[k1]) = KindPaths(pkgs[k2])
\* two commits were shown the same manifest, which holds two targets
C21_SameManifestTwice ==
  /\ cpc[EnumKey] = "install" /\ cpc[EnumKey2] = "install"
  /\ pkgs_value[EnumKey] = pkgs_value[EnumKey2]
  /\ Len(pkgs[EnumKey2]) = 2

\* C22: the flake_url of every target, of either kind, is the flake URL of
\* the commit that owns it, then '#', then the target's stored path.
C22_FlakeUrlOfCommitAndPath ==
  \A k \in CommitKeys : \A i \in DOMAIN pkgs[k] :
     /\ k[2] \in DOMAIN commits[k[1]]
     /\ pkgs[k][i].flake_url
          = commits[k[1]][k[2]].flake_url \o <<"#">> \o pkgs[k][i].path
\* a commit has a target of each kind
C22_BothKinds ==
  \E k \in CommitKeys : \E i, j \in DOMAIN pkgs[k] :
     /\ pkgs[k][i].kind = "Derivation"
     /\ pkgs[k][j].kind = "NixosConfig"
     /\ Len(pkgs[k][j].path) > Len(TOPLEVEL_SUFFIX)

\* the steps one worker can take from one phase to the next
PhaseOrder ==
  {<<"start", "open">>, <<"open", "poll">>, <<"open", "clone">>, <<"clone", "poll">>,
   <<"clone", "teardown">>, <<"poll", "scan">>, <<"poll", "teardown">>,
   <<"scan", "fetch">>, <<"scan", "panicked">>, <<"fetch", "poll">>,
   <<"fetch", "sleep">>, <<"fetch", "teardown">>, <<"sleep", "fetch">>,
   <<"teardown", "start">>}

\* C23: the phases of one worker follow one another: Opening, Cloning when
\* the checkout cannot be opened, then Polling, Pulling, the sleep, Pulling
\* again.  A scan starts only after the open or the clone succeeded, a pull
\* starts only when the scan of every branch has ended, and the status is
\* Idle whenever the worker sleeps between two pulls.
C23_PhasesInOrder ==
  /\ [](\A r \in Repos :
          /\ pc[r] = "open" => status[r] = "Opening"
          /\ pc[r] = "clone" => status[r] = "Cloning"
          /\ pc[r] = "scan" => status[r] = "Polling" /\ checkout[r]
          /\ pc[r] = "fetch" => status[r] = "Pulling" /\ todo[r] = <<>>
          /\ pc[r] = "sleep" => status[r] = "Idle")
  /\ [][\A r \in Repos :
          /\ pc'[r] # pc[r] => <<pc[r], pc'[r]>> \in PhaseOrder
          /\ pc[r] = "open" /\ pc'[r] = "poll" => checkout[r]
          /\ pc[r] = "clone" /\ pc'[r] = "poll" => checkout'[r]
          /\ pc[r] = "scan" /\ pc'[r] = "fetch" => todo[r] = <<>>]_vars
\* a worker sleeps between two pulls, after it scanned a branch
C23_SleepingAfterScan ==
  \E r \in Repos :
     /\ pc[r] = "sleep"
     /\ status[r] = "Idle"
     /\ \E b \in DOMAIN branch_commit_hashes[r] : branch_commit_hashes[r][b] # <<>>

\* C24: with every thread scheduled and every external tool ending, and
\* nothing assumed of the order in which the semaphore serves its waiters,
\* every task blocked on the semaphore gets its permit and every target
\* discovered reaches Success, Failed or UnsupportedArchitecture.
C24_EveryWaiterServed ==
  \A k \in PipeKeys :
     /\ (cpc[k] = "acquire") ~> (cpc[k] = "show")
     /\ \A i \in PkgIdx :
           /\ (i \in DOMAIN bpc[k] /\ bpc[k][i] = "waiting")
                ~> (i \in DOMAIN bpc[k] /\ bpc[k][i] = "running")
           /\ (i \in DOMAIN pkgs[k])
                ~> (i \in DOMAIN bpc[k] /\ bpc[k][i] = "done" /\ Terminal(pkg_status[k][i]))
\* no permit is left while a discovery and a build wait for one
C24_TwoBlocked ==
  /\ sem_count = 0
  /\ \E k \in CommitKeys : cpc[k] = "acquire"
  /\ \E t \in Targets : StepOf(t) = "waiting"

\* C25: a Derivation whose architecture is not supported goes from Idle
\* straight to UnsupportedArchitecture: it is never seen as WaitingForBuild
\* or as Building.
C25_UnsupportedNeverSeenBuilding ==
  \A t \in Targets :
     Unsupported(t) => StatusOf(t).tag \notin {"WaitingForBuild", "Building"}

\* the positions of man whose value has description, name and type as
\* strings and that no target encloses
DerivationsOf(man) == {pos \in Emitted(man) : IsDerivation(NodeAt(man, pos))}
PathsOf(man) == {PathAt(man, pos) : pos \in Positions(man)}

C27_SystemConfigOnlyUnderNixosConfigurations ==
  \A k \in CommitKeys :
     LET man == pkgs_value[k]
         configs == {i \in DOMAIN pkgs[k] : pkgs[k][i].kind = "NixosConfig"}
     IN /\ \A i \in configs : \E pos \in Emitted(man) :
              /\ Rank(man, pos) = i
              /\ SubSeq(PathAt(man, pos), 1, Len(K_nixosConfigurations)) = K_nixosConfigurations
              /\ \E j \in DOMAIN NodeAt(man, pos).m :
                    NodeAt(man, pos).m[j] = KV(K_type, JStr(V_nixos_configuration))
              /\ pkgs[k][i].path = PathAt(man, pos) \o TOPLEVEL_SUFFIX
        /\ \A path \in {pkgs[k][i].path : i \in configs}
                        \cup {StoredPathAt(man, pos) : pos \in Emitted(man)} :
              Cardinality({i \in configs : pkgs[k][i].path = path})
                = Cardinality({pos \in Emitted(man) \ DerivationsOf(man) :
                                 StoredPathAt(man, pos) = path})
\* a commit was shown a nixos-configuration that holds a Derivation under
\* nixosConfigurations, and a nixos-configuration elsewhere
C27_OnlyTheOneUnderNixosConfigurations ==
  /\ cpc[EnumKey] = "install"
  /\ pkgs_value[EnumKey] =
       JObj(<<KV(K_a, NixosCfg), KV(K_nixosConfigurations, JObj(<<KV(K_host, CfgNested)>>))>>)
  /\ KindPaths(pkgs[EnumKey]) =
       << <<"NixosConfig", K_nixosConfigurations \o <<".">> \o K_host \o TOPLEVEL_SUFFIX>> >>

\* The build engine on one commit whose manifest holds one Derivation, under
\* every path shape and every architecture segment of a family: each of the
\* tags, a tag with more text after it, the beginning of a tag, a prefix
\* that two tags share, wasm32-linux and a word that is no tag.
ArchSegments ==
  {ARCHITECTURES[i] : i \in 1..Len(ARCHITECTURES)}
  \cup {K_wasm32_linux, K_hello, X86_64_LINUX \o <<"x">>,
        SubSeq(X86_64_LINUX, 1, Len(X86_64_LINUX) - 1),
        <<"s", "3", "9", "0">>, <<"m", "i", "p", "s">>}
ArchManifests ==
  {JObj(<<KV(K_packages, JObj(<<KV(seg, JObj(<<KV(K_hello, Drv)>>))>>))>>) : seg \in ArchSegments}
  \cup {JObj(<<KV(K_packages, JObj(<<KV(seg, Drv)>>))>>) : seg \in ArchSegments}
  \cup {JObj(<<KV(seg, JObj(<<KV(X86_64_LINUX, Drv)>>))>>) : seg \in ArchSegments}
  \cup {JObj(<<KV(seg, Drv)>>) : seg \in ArchSegments}
InitArch ==
  /\ settings \in SettingsSet
  /\ repo = [r \in Repos |-> [branches |-> <<MAIN, DEV>>, build_depth |-> 1]]
  /\ InitPipe
  /\ InitRepo
NextArch ==
  \/ Visit(EnumKey[1], EnumKey[2])
  \/ CommitBuild_Start(EnumKey)
  \/ GetPkgs_Acquire(EnumKey)
  \/ \E m \in ArchManifests :
        GetPkgs_Finish(EnumKey, [io |-> "ok", code |-> 0, stdout |-> "json", value |-> m])
  \/ CommitBuild_Install(EnumKey)
  \/ CommitBuild_Spawn(EnumKey)
  \/ Builds
SpecArch == InitArch /\ [][NextArch]_vars

\* the text of path between its first and its second '.', to the end of
\* path when there is one '.' only
HasDot(path) == \E i \in DOMAIN path : path[i] = "."
SegmentOf(path) ==
  LET ends == {<<a, b>> \in (1..Len(path)) \X (1..(Len(path) + 1)) :
                 /\ a < b
                 /\ path[a] = "."
                 /\ \A j \in 1..(a - 1) : path[j] # "."
                 /\ \A j \in (a + 1)..(b - 1) : path[j] # "."
                 /\ b <= Len(path) => path[b] = "."}
      e == CHOOSE x \in ends : TRUE
  IN SubSeq(path, e[1] + 1, e[2] - 1)
TagsPrefixing(seg) ==
  {ARCHITECTURES[i] : i \in {j \in 1..Len(ARCHITECTURES) :
                               /\ Len(ARCHITECTURES[j]) <= Len(seg)
                               /\ \A n \in 1..Len(ARCHITECTURES[j]) :
                                     seg[n] = ARCHITECTURES[j][n]}}
ExpectedArch(path) ==
  IF ~HasDot(path) THEN UNKNOWN
  ELSE IF TagsPrefixing(SegmentOf(path)) = {} THEN UNKNOWN
  ELSE CHOOSE a \in TagsPrefixing(SegmentOf(path)) :
          \A b \in TagsPrefixing(SegmentOf(path)) : Len(b) <= Len(a)

\* C28: the architecture of a Derivation is the longest of the 24 tags that
\* begins the text between the first two '.' of its path, and unknown when
\* the path has no '.' or no tag begins that text; with x86_64-linux the one
\* supported architecture, a Derivation under wasm32-linux has architecture
\* unknown and ends as UnsupportedArchitecture(unknown).
C28_ArchFromSecondSegment ==
  /\ settings.supported_architectures = <<X86_64_LINUX>>
  /\ \A t \in Targets :
        pkgs[t[1]][t[2]].kind = "Derivation" =>
           /\ pkgs[t[1]][t[2]].arch = ExpectedArch(pkgs[t[1]][t[2]].path)
           /\ (/\ HasDot(pkgs[t[1]][t[2]].path)
               /\ SegmentOf(pkgs[t[1]][t[2]].path) = K_wasm32_linux)
              => /\ pkgs[t[1]][t[2]].arch = UNKNOWN
                 /\ StepOf(t) = "done" => StatusOf(t) = UnsupportedArchitecture(UNKNOWN)
\* the Derivation packages.wasm32-linux.hello has ended
C28_Wasm32Ended ==
  \E t \in Targets :
     /\ pkgs[t[1]][t[2]].path
          = K_packages \o <<".">> \o K_wasm32_linux \o <<".">> \o K_hello
     /\ StepOf(t) = "done"
     /\ StatusOf(t) = UnsupportedArchitecture(UNKNOWN)

\* One worker on a history of one commit more, at depths up to one more,
\* with an origin that stands still: the walk reaches the parents of the
\* parents of a merge.
WalkHashes == NHashes + 1
WalkDepth == MaxDepth + 1
InitWalk ==
  /\ settings \in {s \in SettingsSet : s.n_build_threads = 0}
  /\ repo \in {f \in [Repos -> {[branches |-> bs, build_depth |-> d] :
                                  bs \in {<<MAIN>>, <<MAIN, DEV>>}, d \in 1..WalkDepth}] :
                 \A r \in Repos \ Workers : f[r] = [branches |-> <<MAIN>>, build_depth |-> 1]}
  /\ InitPipe
  /\ url = [r \in Repos |-> DefaultUrl(r)]
  /\ checkout_path = [r \in Repos |-> checkout_path_of(url[r])]
  /\ remote \in {f \in [Repos -> [BranchNames -> 1..WalkHashes]] :
                   \A r \in Repos \ Workers : \A b \in BranchNames : f[r][b] = 1}
  /\ checkout = [r \in Repos |-> FALSE]
  /\ local_refs = [r \in Repos |-> <<>>]
  /\ status = [r \in Repos |-> "Idle"]
  /\ branch_commit_hashes = [r \in Repos |-> RepoInfo_new(repo[r])]
  /\ pc = [r \in Repos |-> "start"]
  /\ todo = [r \in Repos |-> <<>>]
  /\ log = [r \in Repos |-> [loop |-> "none", delete |-> "none"]]
NextWalk == \E r \in Workers : WorkerStep(r)
SpecWalk == InitWalk /\ [][NextWalk]_vars

RECURSIVE Within(_, _)
\* the commits at most n parent steps away from commit c
Within(c, n) ==
  IF n = 0 THEN {c}
  ELSE {c} \cup UNION {Within(Parents(c)[i], n - 1) : i \in 1..Len(Parents(c))}
RECURSIVE ParentsFirst(_, _)
RECURSIVE ThenTheirs(_, _, _)
\* the parents of c, then for each of them in turn what it adds, d levels down
ParentsFirst(c, d) == IF d = 0 THEN <<>> ELSE Parents(c) \o ThenTheirs(Parents(c), 1, d - 1)
ThenTheirs(ps, i, d) ==
  IF i > Len(ps) THEN <<>> ELSE ParentsFirst(ps[i], d) \o ThenTheirs(ps, i + 1, d)
Monitored(r) == {b \in DOMAIN branch_commit_hashes[r] : Contains(repo[r].branches, b)}

\* C29: after a scan the sequence of a monitored branch starts with the
\* tip; the parents of a commit come before what their own parents add; no
\* commit more than build_depth - 1 parent steps away from the tip is in
\* the sequence, and none more than that away from every tip is registered.
C29_ParentsBeforeTheirParents ==
  \A r \in Workers :
     pc[r] = "scan" /\ todo[r] = <<>> =>
        /\ \A b \in Monitored(r) :
              LET tip == local_refs[r][ORIGIN \o b]
                  hashes == branch_commit_hashes[r][b]
              IN /\ hashes[1] = tip
                 /\ hashes = <<tip>> \o ParentsFirst(tip, repo[r].build_depth - 1)
                 /\ \A i \in DOMAIN hashes : hashes[i] \in Within(tip, repo[r].build_depth - 1)
        /\ DOMAIN commits[r]
             \subseteq UNION {Within(local_refs[r][ORIGIN \o b], repo[r].build_depth - 1) :
                                b \in Monitored(r)}
\* a branch whose tip is a merge of a merge was scanned at depth 3
C29_GrandparentsListed ==
  \E r \in Workers :
     /\ pc[r] = "scan" /\ todo[r] = <<>>
     /\ repo[r].build_depth = 3
     /\ branch_commit_hashes[r][MAIN] = <<4, 3, 2, 2, 1, 1>>

\* the sequence a scan of branch b of repository r computes
ScanOf(r, b) ==
  <<local_refs[r][ORIGIN \o b]>>
    \o ParentsFirst(local_refs[r][ORIGIN \o b], repo[r].build_depth - 1)

\* C30: a scan stores the sequence of a branch in one write that replaces
\* the entry: in every step the entry either stays as it is or becomes the
\* whole sequence that scan computed, so no reader sees a part of it or the
\* old sequence with the new hashes after it; after a scan every monitored
\* branch's entry is the sequence computed for it.
C30_ReplacedInOneWrite ==
  /\ [][\A r \in Repos : \A b \in DOMAIN branch_commit_hashes[r] :
          branch_commit_hashes'[r][b] # branch_commit_hashes[r][b] =>
             /\ pc[r] = "scan" /\ todo[r] # <<>>
             /\ Head(todo[r]) = ORIGIN \o b
             /\ branch_commit_hashes'[r][b] = ScanOf(r, b)]_vars
  /\ [](\A r \in Workers :
          pc[r] = "scan" /\ todo[r] = <<>> =>
             \A b \in Monitored(r) : branch_commit_hashes[r][b] = ScanOf(r, b))
\* the sequence of main was replaced by a shorter one: commit 2 was
\* registered by an earlier scan of main, whose tip is commit 1 again
C30_ReplacedByShorter ==
  \E r \in Workers :
     /\ pc[r] = "scan" /\ todo[r] = <<>>
     /\ repo[r].branches = <<MAIN>>
     /\ branch_commit_hashes[r][MAIN] = <<1>>
     /\ 2 \in DOMAIN commits[r]

\* The commit map's lock: calls of get_or_create_commit for the first
\* commit of each repository, status readers, and the discovery threads.
GoC(r) == GoC_Found(r) \/ GoC_Insert(r) \/ GoC_Drop(r)
InitLock ==
  /\ settings \in SettingsSet
  /\ repo = [r \in Repos |-> [branches |-> <<MAIN, DEV>>, build_depth |-> 1]]
  /\ InitPipe
  /\ InitRepo
NextLock ==
  \/ \E k \in PipeKeys : GoC_Lock(k[1], k[2])
  \/ \E r \in Repos :
        \/ GoC_Found(r)
        \/ GoC_Insert(r)
        \/ GoC_Drop(r)
        \/ GoC_Build(r)
        \/ Read_Lock(r)
        \/ Read_Unlock(r)
  \/ Discovery
SpecLock == InitLock /\ [][NextLock]_vars

\* C31: get_or_create_commit does not hold the write lock of the commit
\* map when the discovery thread is spawned, nor after: a discovery starts
\* only in a step in which the map is not write-locked, and a call that
\* holds the lock can always go on to release it, whatever the discovery
\* and build threads do.
C31_LockNotHeldAcrossSpawn ==
  /\ [][\A k \in CommitKeys :
          cpc[k] = "none" /\ cpc'[k] # "none" =>
             /\ commits_lock[k[1]] # "write"
             /\ commits_lock'[k[1]] # "write"]_vars
  /\ [](\A r \in Repos :
          /\ commits_lock[r] = "write" <=> goc[r].pc \in {"locked", "inserted"}
          /\ commits_lock[r] = "write" => ENABLED GoC(r)
          /\ goc[r].pc = "inserted" => cpc[<<r, goc[r].h>>] = "none")
\* a reader holds the read lock of a map while the discovery of a commit
\* of that map runs flake show
C31_ReadDuringDiscovery ==
  \E k \in CommitKeys : commits_lock[k[1]] = "read" /\ cpc[k] = "show"

\* C32: a pull reports a change exactly when the references after the
\* fetch differ from those before it; after a change the worker scans the
\* branches again, after none it sleeps and pulls again without a scan, and
\* a fetch that fails sends the worker to the teardown.
C32_ChangedIffRefsDiffer ==
  [][\A r \in Repos :
       /\ pc[r] = "fetch" /\ pc'[r] # "fetch" =>
             /\ pc'[r] \in {"poll", "sleep", "teardown"}
             /\ pc'[r] = "poll" <=> local_refs'[r] # local_refs[r]
             /\ pc'[r] = "sleep" => local_refs'[r] = local_refs[r]
             /\ pc'[r] = "teardown" =>
                   /\ local_refs'[r] = local_refs[r]
                   /\ log'[r].loop = "fetch"
       /\ pc[r] = "sleep" /\ pc'[r] # "sleep" =>
             /\ pc'[r] = "fetch"
             /\ branch_commit_hashes'[r] = branch_commit_hashes[r]
       /\ pc[r] = "poll" /\ pc'[r] # "poll" => pc'[r] \in {"scan", "teardown"}]_vars
\* a pull saw the tip of main move: the worker is about to scan again,
\* the entry of main still starts with the old tip
C32_ChangedPull ==
  \E r \in Workers :
     /\ pc[r] = "poll"
     /\ Contains(repo[r].branches, MAIN)
     /\ branch_commit_hashes[r][MAIN] # <<>>
     /\ branch_commit_hashes[r][MAIN][1] # local_refs[r][ORIGIN \o MAIN]

\* The start of the program on every configuration of two repositories
\* whose urls are of a family: urls that differ in a '/', a ':' or a '_'.
UrlFamily ==
  {DefaultUrl(1), DefaultUrl(2),
   Replace(DefaultUrl(1), "/", "_"), Replace(DefaultUrl(1), "/", ":"),
   DefaultUrl(1) \o <<":", "x">>, DefaultUrl(1) \o <<"/", "x">>}
InitPaths ==
  /\ settings \in {s \in SettingsSet : s.n_build_threads = 0}
  /\ repo = [r \in Repos |-> [branches |-> <<MAIN, DEV>>, build_depth |-> 1]]
  /\ InitPipe
  /\ url \in [Repos -> UrlFamily]
  /\ checkout_path = [r \in Repos |-> <<>>]
  /\ remote = [r \in Repos |-> [b \in BranchNames |-> 1]]
  /\ checkout = [r \in Repos |-> FALSE]
  /\ local_refs = [r \in Repos |-> <<>>]
  /\ status = [r \in Repos |-> "Idle"]
  /\ branch_commit_hashes = [r \in Repos |-> RepoInfo_new(repo[r])]
  /\ pc = [r \in Repos |-> "unborn"]
  /\ todo = [r \in Repos |-> <<>>]
  /\ log = [r \in Repos |-> [loop |-> "none", delete |-> "none"]]
NextPaths ==
  \E r \in Repos :
     \/ Main_RepoInfo(r)
     \/ ThreadLoop_Begin(r)
     \/ Open_Err(r)
SpecPaths == InitPaths /\ [][NextPaths]_vars

\* C33: two configured repositories with different urls never get the
\* same checkout path, so that a checkout directory has one worker.
C33_OneWorkerPerCheckout ==
  \A r1, r2 \in Repos :
     /\ r1 # r2
     /\ url[r1] # url[r2]
     /\ checkout_path[r1] # <<>>
     /\ checkout_path[r2] # <<>>
     => checkout_path[r1] # checkout_path[r2]

\* the threads that take a step: workers, discovery threads, build threads
WorkersMoving == {r \in Repos : pc'[r] # pc[r]}
DiscoveriesMoving == {k \in CommitKeys : cpc[k] # "none" /\ cpc'[k] # cpc[k]}
BuildsMoving ==
  {t \in Targets : bpc[t[1]][t[2]] # "none" /\ bpc'[t[1]][t[2]] # bpc[t[1]][t[2]]}

\* C34: every status has one writer: the status of a repository changes
\* only in a step of that repository's worker, the status of a commit only
\* in a step of that commit's discovery thread, the status of a target only
\* in a step of that target's build thread, and no other thread steps with it.
C34_SingleWriter ==
  [][/\ \A r \in Repos :
          status'[r] # status[r] =>
             WorkersMoving = {r} /\ DiscoveriesMoving = {} /\ BuildsMoving = {}
     /\ \A k \in CommitKeys :
          commit_status'[k] # commit_status[k] =>
             WorkersMoving = {} /\ DiscoveriesMoving = {k} /\ BuildsMoving = {}
     /\ \A t \in Targets :
          pkg_status'[t[1]][t[2]] # pkg_status[t[1]][t[2]] =>
             WorkersMoving = {} /\ DiscoveriesMoving = {} /\ BuildsMoving = {t}]_vars
\* a worker, a discovery thread and a build thread have each written their
\* status
C34_ThreeWriters ==
  /\ \E r \in Repos : status[r] = "Pulling"
  /\ \E k \in CommitKeys : cpc[k] = "done" /\ commit_status[k] = "Idle"
  /\ \E t \in Targets : StatusOf(t) = Building

\* a commit whose discovery and builds have all ended
Completed(k) ==
  \/ cpc[k] = "failed"
  \/ /\ cpc[k] = "done"
     /\ \A i \in DOMAIN pkgs[k] : bpc[k][i] = "done" /\ Terminal(pkg_status[k][i])

\* C35: no thread holds a permit while it waits for another one: a thread
\* inside execute can always leave it without a permit, a discovery thread
\* asks for and holds its permit only while no build thread of its commit
\* exists, and so with a single permit every discovery and every build of
\* every commit still completes.
C35_NoHoldAndWait ==
  /\ [](\A k \in CommitKeys :
          /\ cpc[k] = "show" => ENABLED (\E out \in FlakeShowOutputs : GetPkgs_Finish(k, out))
          /\ cpc[k] \in {"spawned", "acquire", "show"} => pkgs[k] = <<>>
          /\ \A i \in DOMAIN bpc[k] :
                /\ bpc[k][i] = "running" =>
                      ENABLED (\E out \in BuildOutputs : BuildStatic_Finish(k, i, out))
                /\ bpc[k][i] # "none" => cpc[k] = "done")
  /\ \A k \in PipeKeys : (N = 1 /\ cpc[k] # "none") ~> Completed(k)
\* with one permit, two commits have completed, one of them with two builds
C35_AllDoneWithOnePermit ==
  /\ N = 1
  /\ \E k1, k2 \in CommitKeys :
        /\ k1 # k2 /\ Completed(k1) /\ Completed(k2)
        /\ cpc[k1] = "done" /\ Len(pkgs[k1]) = 2
        /\ \A i \in DOMAIN pkgs[k1] : n_build[k1][i] = 1

\* C36: a commit whose discovery failed is never discovered again: its hash
\* stays in the commit map, its discovery thread is never started again by
\* a later poll, another branch or a teardown and re-clone, `nix flake
\* show` ran once for it, and its target list stays empty.
C36_FailedNeverRediscovered ==
  /\ [](\A k \in CommitKeys :
          cpc[k] = "failed" =>
             /\ k[2] \in DOMAIN commits[k[1]]
             /\ n_show[k] = 1
             /\ packages[k] = <<>> /\ pkgs[k] = <<>>)
  /\ [][\A k \in CommitKeys :
          cpc[k] = "failed" => cpc'[k] = "failed" /\ n_show'[k] = n_show[k]]_vars
\* discovery of the commit failed; the worker lost a fetch, cloned again and
\* has scanned both branches, which list the commit, once more
C36_FailedAndScannedAgain ==
  \E r \in Workers : \E h \in Hashes :
     /\ cpc[<<r, h>>] = "failed"
     /\ log[r].loop = "fetch" /\ log[r].delete = "none"
     /\ pc[r] = "sleep" /\ checkout[r]
     /\ branch_commit_hashes[r][MAIN] = <<h>>
     /\ branch_commit_hashes[r][DEV] = <<h>>

\* the hashes stored for the branches of repository r
Listed(r) ==
  UNION {{branch_commit_hashes[r][b][i] : i \in 1..Len(branch_commit_hashes[r][b])} :
           b \in DOMAIN branch_commit_hashes[r]}

\* C37: at every instant every hash stored for a branch of a repository is
\* a key of that repository's commit map, and no key ever leaves the map.
C37_ListedHashesRegistered ==
  /\ [](\A r \in Repos : Listed(r) \subseteq DOMAIN commits[r])
  /\ [][\A r \in Repos : DOMAIN commits[r] \subseteq DOMAIN commits'[r]]_vars
\* a branch lists two commits while the map also holds a commit that no
\* branch lists any more
C37_MapOutgrowsLists ==
  \E r \in Workers :
     /\ \E b \in DOMAIN branch_commit_hashes[r] : Len(branch_commit_hashes[r][b]) >= 2
     /\ Listed(r) # {}
     /\ DOMAIN commits[r] \ Listed(r) # {}

\* C38: the hashes stored for a branch hold each hash at most once, whatever
\* the commit graph, histories in which two parents share an ancestor
\* within the depth of the walk included.
C38_NoHashTwice ==
  \A r \in Repos : \A b \in DOMAIN branch_commit_hashes[r] :
     \A i, j \in 1..Len(branch_commit_hashes[r][b]) :
        branch_commit_hashes[r][b][i] = branch_commit_hashes[r][b][j] => i = j

\* The build engine under every list of supported architectures: none, the
\* one of the host, two of them.
SupportedLists == {<<>>, <<X86_64_LINUX>>, <<AARCH64_LINUX, X86_64_LINUX>>}
InitSupported ==
  /\ settings \in {[n_build_threads |-> 1, supported_architectures |-> sa] :
                      sa \in SupportedLists}
  /\ repo = [r \in Repos |-> [branches |-> <<MAIN, DEV>>, build_depth |-> 1]]
  /\ InitPipe
  /\ InitRepo
SpecSupported == InitSupported /\ [][Next]_vars

IsSystemConfigTarget(t) == pkgs[t[1]][t[2]].kind = "NixosConfig"

\* C39: a SystemConfig target is built whatever supported_architectures
\* holds: its build thread goes on to build_static and never to the
\* architecture check, its status is never UnsupportedArchitecture, and when
\* its thread has ended `nix build` has run once for it and its status is
\* Success or Failed.
C39_SystemConfigAlwaysBuilt ==
  \A t \in Targets :
     IsSystemConfigTarget(t) =>
        /\ StatusOf(t).tag # "UnsupportedArchitecture"
        /\ StepOf(t) = "begun" =>
              /\ ENABLED BuildStatic_Wait(t[1], t[2])
              /\ ~ENABLED Package_Skip(t[1], t[2])
        /\ StepOf(t) = "done" =>
              n_build[t[1]][t[2]] = 1 /\ StatusOf(t).tag \in {"Success", "Failed"}
\* with no architecture supported, a SystemConfig was built and succeeded
\* while the Derivation next to it was skipped
C39_BuiltWithNothingSupported ==
  /\ settings.supported_architectures = <<>>
  /\ \E t, u \in Targets :
        /\ t[1] = u[1]
        /\ IsSystemConfigTarget(t) /\ StepOf(t) = "done" /\ StatusOf(t).tag = "Success"
        /\ ~IsSystemConfigTarget(u) /\ StepOf(u) = "done"
        /\ StatusOf(u).tag = "UnsupportedArchitecture"

\* the number of threads inside Semaphore::execute: discovery threads and
\* build threads
Inside == Cardinality(ShowsInProgress) + Cardinality(BuildsInProgress)
\* the number of threads that enter execute in a step
Entering ==
  Cardinality({k \in CommitKeys : cpc[k] = "acquire" /\ cpc'[k] = "show"})
    + Cardinality({t \in Targets : StepOf(t) = "waiting" /\ bpc'[t[1]][t[2]] = "running"})

\* C40: permits are conserved: in every reachable state the available count
\* plus the number of threads inside execute is N, the count is never above
\* N, a thread enters execute only from a count above 0, which it lowers by
\* one, and the count moves by one at a time.
C40_PermitsConserved ==
  /\ [](sem_count + Inside = N /\ sem_count \in 0..N)
  /\ [][/\ Entering > 0 =>
             sem_count > 0 /\ sem_count' = sem_count - 1 /\ Entering = 1
        /\ sem_count' \in {sem_count - 1, sem_count, sem_count + 1}]_vars
\* one of two permits is out to a build while a discovery and a build that
\* returned theirs have ended
C40_OneOutOneBack ==
  /\ N = 2 /\ sem_count = 1
  /\ Cardinality(BuildsInProgress) = 1 /\ ShowsInProgress = {}
  /\ \E k \in CommitKeys : cpc[k] = "failed"
  /\ \E t \in Targets : StepOf(t) = "done" /\ n_build[t[1]][t[2]] = 1

====
